---- MODULE Spec2Model ----
(***************************************************************************)
(* HelgyKoin ledger: LedgerManager (src/ledger.py) on top of              *)
(* DatabaseManager / CacheManager (src/database.py).                      *)
(*                                                                         *)
(* Representation.  REAL columns are fixed point: one HKN is Scale units. *)
(* The clock counts ticks of SecondsPerTick seconds.  Multipliers are     *)
(* kept in tenths (1.0 = 10, 1.5 = 15, 2.0 = 20).  total_supply is kept   *)
(* in whole HKN (its value, 10^9 HKN, does not fit the unit scale).       *)
(* The model computes in exact fixed point, and every amount it feeds in  *)
(* is a whole number of units; the rounding of the binary floating point  *)
(* arithmetic of the code (float, REAL) is not modelled.                   *)
(***************************************************************************)
EXTENDS Integers, Sequences, FiniteSets, Bags, TLC

VARIABLES
    db,     \* the committed store: wallets, transactions, token_info, stakes, active_boosters
    cache,  \* CacheManager.cache: key -> CacheEntry
    now,    \* datetime.now(), in ticks
    calls,  \* the transactions of methods under way (a bag), see SpecConcurrent
    rewards_call, \* the arguments and the value of a call of calculate_rewards, see SpecRewards
    pool    \* ConnectionPool: its counters and the callers of get_connection, see SpecPool

vars == <<db, cache, now, calls, rewards_call, pool>>

(***************************************************************************)
(* Units                                                                   *)
(***************************************************************************)
Scale == 40 * 1000
SecondsPerTick == 6 * 60
TicksPerHour == 3600 \div SecondsPerTick
HKN(n) == n * Scale

(***************************************************************************)
(* Program constants                                                       *)
(***************************************************************************)
STARTUP_BONUS == 100
TOTAL_SUPPLY == 1000000000
INITIAL_PRICE == 1
RATE_PER_MILLE == 1
default_ttl == 300
MAX_RETRIES == 3
RETRY_DELAY == 1

(***************************************************************************)
(* Bounds of the model                                                     *)
(***************************************************************************)
MaxLog == 2
MaxTime == 1
MaxStakes == 1
MaxCalls == 2

UserIds == {1, 2}
SYSTEM == 0

(***************************************************************************)
(* The store: the five tables of _create_tables, with their CHECKs.       *)
(***************************************************************************)
EmptyTable == [k \in {} |-> 0]

InitDB ==
    [ wallets      |-> EmptyTable,
      transactions |-> <<>>,
      token        |-> [current_price |-> INITIAL_PRICE, total_supply |-> TOTAL_SUPPLY],
      stakes       |-> EmptyTable,
      stake_seq    |-> 0,
      boosters     |-> EmptyTable,
      booster_seq  |-> 0 ]

Put(f, k, v) == [x \in DOMAIN f \cup {k} |-> IF x = k THEN v ELSE f[x]]
Drop(f, K) == [x \in DOMAIN f \ K |-> f[x]]

\* the table declared without its CHECK
CheckBalanceMissing(b) == TRUE

\* CHECK (balance >= 0) of table wallets
CheckBalance(b) == b >= 0
\* the tables without their CHECK (amount > 0)
CheckAmountMissing(a) == TRUE

\* CHECK (amount > 0) of tables transactions and stakes
CheckAmount(a) == a > 0
\* CHECK (total_supply > 0) of table token_info
CheckSupply(s) == s > 0

Done(d) == [ok |-> TRUE, db |-> d]
Failed(d) == [ok |-> FALSE, db |-> d]

\* UPDATE wallets SET balance = balance + ? WHERE user_id = ?
UpdateBalance(d, u, delta) ==
    IF u \notin DOMAIN d.wallets THEN Done(d)
    ELSE LET b == d.wallets[u].balance + delta
         IN IF CheckBalance(b)
            THEN Done([d EXCEPT !.wallets[u].balance = b])
            ELSE Failed(d)

\* INSERT OR REPLACE INTO wallets: an insert that overwrites the row of u
InsertWalletReplace(d, u, name, b) ==
    IF ~CheckBalance(b) THEN Failed(d)
    ELSE Done([d EXCEPT !.wallets = Put(@, u, [username |-> name, balance |-> b])])

\* INSERT INTO wallets (user_id, username, balance) VALUES (?, ?, ?)
InsertWallet(d, u, name, b) ==
    IF u \in DOMAIN d.wallets \/ ~CheckBalance(b) THEN Failed(d)
    ELSE Done([d EXCEPT !.wallets = Put(@, u, [username |-> name, balance |-> b])])

\* INSERT INTO transactions (sender_id, receiver_id, amount, description)
InsertTransaction(d, s, r, a, t) ==
    IF ~CheckAmount(a) THEN Failed(d)
    ELSE Done([d EXCEPT !.transactions =
                 Append(@, [id |-> Len(@) + 1, timestamp |-> t,
                            sender_id |-> s, receiver_id |-> r, amount |-> a])])

\* UPDATE token_info SET total_supply = ? WHERE id = 1
UpdateSupply(d, s) ==
    IF CheckSupply(s) THEN Done([d EXCEPT !.token.total_supply = s]) ELSE Failed(d)

\* UPDATE token_info SET current_price = ? WHERE id = 1
UpdatePrice(d, p) ==
    IF p >= 0 THEN Done([d EXCEPT !.token.current_price = p]) ELSE Failed(d)

\* the INSERT with last_claimed_at left at the epoch instead of the time of
\* the insertion
InsertStakeUnclaimed(d, u, a, t) ==
    IF ~CheckAmount(a) THEN Failed(d)
    ELSE Done([d EXCEPT !.stake_seq = @ + 1,
                        !.stakes = Put(@, d.stake_seq + 1,
                                       [user_id |-> u, amount |-> a,
                                        created_at |-> t, last_claimed_at |-> 0])])

\* INSERT INTO stakes (user_id, amount, created_at, last_claimed_at)
InsertStake(d, u, a, t) ==
    IF ~CheckAmount(a) THEN Failed(d)
    ELSE Done([d EXCEPT !.stake_seq = @ + 1,
                        !.stakes = Put(@, d.stake_seq + 1,
                                       [user_id |-> u, amount |-> a,
                                        created_at |-> t, last_claimed_at |-> t])])

\* UPDATE stakes SET last_claimed_at = ? WHERE stake_id = ?
UpdateLastClaimed(d, sid, t) ==
    IF sid \in DOMAIN d.stakes
    THEN Done([d EXCEPT !.stakes[sid].last_claimed_at = t])
    ELSE Done(d)

\* DELETE FROM stakes WHERE stake_id = ?
DeleteStake(d, sid) == Done([d EXCEPT !.stakes = Drop(@, {sid})])

(***************************************************************************)
(* SQL LIKE on strings kept as sequences of characters: _ matches one     *)
(* character, % any run of characters.                                     *)
(***************************************************************************)
RECURSIVE Like(_, _)
Like(s, p) ==
    IF p = <<>> THEN s = <<>>
    ELSE IF Head(p) = "%"
         THEN Like(s, Tail(p)) \/ (s # <<>> /\ Like(Tail(s), p))
         ELSE /\ s # <<>>
              /\ (Head(p) = "_" \/ Head(p) = Head(s))
              /\ Like(Tail(s), Tail(p))

speed == <<"s", "p", "e", "e", "d">>
speed_staking == speed \o <<"_", "s", "t", "a", "k", "i", "n", "g">>
speed_24h_15x == speed \o <<"_", "2", "4", "h", "_", "1", ".", "5", "x">>
speed_7d_2x == speed \o <<"_", "7", "d", "_", "2", "x">>

\* a purchase that leaves the earlier boosters of the user in place
DeleteSpeedBoostersMissing(d, u) == Done(d)

\* DELETE FROM active_boosters WHERE user_id = ? AND booster_type LIKE 'speed%'
DeleteSpeedBoosters(d, u) ==
    Done([d EXCEPT !.boosters =
            Drop(@, {b \in DOMAIN @ : /\ @[b].user_id = u
                                      /\ Like(@[b].booster_type, speed \o <<"%">>)})])

\* the INSERT with the neutral multiplier in place of the one passed
InsertBoosterNeutral(d, u, key, until, mult) ==
    Done([d EXCEPT !.booster_seq = @ + 1,
                   !.boosters = Put(@, d.booster_seq + 1,
                                    [user_id |-> u, booster_type |-> key,
                                     active_until |-> until,
                                     effect_multiplier |-> 10])])

\* INSERT INTO active_boosters (user_id, booster_type, active_until, effect_multiplier)
InsertBooster(d, u, key, until, mult) ==
    IF mult <= 0 THEN Failed(d)
    ELSE Done([d EXCEPT !.booster_seq = @ + 1,
                        !.boosters = Put(@, d.booster_seq + 1,
                                         [user_id |-> u, booster_type |-> key,
                                          active_until |-> until,
                                          effect_multiplier |-> mult])])

\* One SQL statement run against the working state at time t: the timestamp
\* of a transactions row is CURRENT_TIMESTAMP, the times of a stakes row are
\* the datetime.now() taken inside the transaction
Exec(d, st, t) ==
    CASE st.op = "UpdateBalance"       -> UpdateBalance(d, st.user, st.amount)
      [] st.op = "InsertTransaction"   -> InsertTransaction(d, st.sender, st.receiver, st.amount, t)
      [] st.op = "UpdateSupply"        -> UpdateSupply(d, st.supply)
      [] st.op = "InsertStake"         -> InsertStake(d, st.user, st.amount, t)
      [] st.op = "DeleteStake"         -> DeleteStake(d, st.stake)
      [] st.op = "DeleteSpeedBoosters" -> DeleteSpeedBoosters(d, st.user)
      [] st.op = "InsertBooster"       -> InsertBooster(d, st.user, st.key, st.until, st.mult)
      [] st.op = "InsertWallet"        -> InsertWallet(d, st.user, st.name, st.amount)
      [] st.op = "UpdatePrice"         -> UpdatePrice(d, st.price)
      [] st.op = "UpdateLastClaimed"   -> UpdateLastClaimed(d, st.stake, st.at)

(***************************************************************************)
(* BEGIN TRANSACTION ... commit / rollback.  fault = i (1..n) makes the   *)
(* i-th statement raise a store error before it takes effect, fault =    *)
(* n + 1 makes the commit raise, fault = 0 is a run without store fault.  *)
(***************************************************************************)
RECURSIVE ExecFrom(_, _, _, _, _)
ExecFrom(d, stmts, i, t, fault) ==
    IF i > Len(stmts) THEN [ok |-> fault # i, db |-> d]
    ELSE IF fault = i THEN Failed(d)
    ELSE LET r == Exec(d, stmts[i], t)
         IN IF r.ok THEN ExecFrom(r.db, stmts, i + 1, t, fault) ELSE Failed(d)

\* a failed transaction whose statements stay in effect
RollbackMissing(before, work) == work

\* await db.rollback(): the store returns to the state before BEGIN
Rollback(before, work) == before

Transaction(d, stmts, t, fault) ==
    LET r == ExecFrom(d, stmts, 1, t, fault)
    IN IF r.ok THEN Done(r.db) ELSE Failed(Rollback(d, r.db))

Faults(n) == 0 .. n + 1

\* the store faults that can strike a method at p: those of its transaction
FaultsAt(p) == IF p.result = "begin" THEN Faults(Len(p.stmts)) ELSE {0}

(***************************************************************************)
(* CacheManager: key -> CacheEntry(value, created_at, ttl)                *)
(***************************************************************************)
\* CacheEntry.is_expired: age > ttl, age in seconds
is_expired(e, t) == (t - e.created_at) * SecondsPerTick > e.ttl

\* CacheManager.get that does not look at the age of the entry
CacheHitExpired(c, k, t) == k \in DOMAIN c

\* CacheManager.get: the value of a live entry; an expired entry is deleted
CacheHit(c, k, t) == k \in DOMAIN c /\ ~is_expired(c[k], t)
CacheAfterGet(c, k, t) ==
    IF k \in DOMAIN c /\ is_expired(c[k], t) THEN Drop(c, {k}) ELSE c

\* CacheManager.get: Miss is None
Miss == [hit |-> FALSE, value |-> "None"]
get(c, k, t) ==
    [result |-> IF CacheHit(c, k, t) THEN [hit |-> TRUE, value |-> c[k].value] ELSE Miss,
     cache |-> CacheAfterGet(c, k, t)]

\* CacheManager.set: ttl = ttl or self.default_ttl, no ttl given is 0
set(c, k, v, ttl, t) ==
    Put(c, k, [value |-> v, created_at |-> t,
               ttl |-> IF ttl = 0 THEN default_ttl ELSE ttl])

\* CacheManager.set as fetch_one and fetch_all call it, without a ttl
CacheSet(c, k, v, t) == set(c, k, v, 0, t)

\* CacheManager.invalidate() with no pattern
invalidate(c) == EmptyTable

\* pattern in k, for strings as sequences of characters
Contains(k, pattern) ==
    \E i \in 1 .. Len(k) - Len(pattern) + 1 :
        SubSeq(k, i, i + Len(pattern) - 1) = pattern

\* CacheManager.invalidate(pattern): an empty pattern clears the cache
invalidate_pattern(c, pattern) ==
    IF pattern # <<>>
    THEN Drop(c, {k \in DOMAIN c : Contains(k, pattern)})
    ELSE EmptyTable

\* CacheManager.cleanup_expired
cleanup_expired(c, t) == Drop(c, {k \in DOMAIN c : is_expired(c[k], t)})

\* cache_key = f"fetch_one:{hash((query, params))}"
Key(q, p) == [q |-> q, p |-> p]

NoRow == [found |-> FALSE]

\* DatabaseManager.fetch_one: row is what the SELECT returns from the store
fetch_one(c, k, row, t) ==
    IF CacheHit(c, k, t) THEN [row |-> c[k].value, cache |-> c]
    ELSE LET c1 == CacheAfterGet(c, k, t)
         IN [row |-> row,
             cache |-> IF row.found THEN CacheSet(c1, k, row, t) ELSE c1]

\* DatabaseManager.fetch_all: rows is what the SELECT returns from the store;
\* the result is cached also when it is empty
fetch_all(c, k, rows, t) ==
    IF CacheHit(c, k, t) THEN [rows |-> c[k].value, cache |-> c]
    ELSE [rows |-> rows, cache |-> CacheSet(CacheAfterGet(c, k, t), k, rows, t)]

\* the loop of execute_query with one more pass than range(MAX_RETRIES) has
RECURSIVE AttemptOneMore(_, _, _, _, _, _)
AttemptOneMore(d, c, st, t, attempt, nfail) ==
    LET r == IF attempt < nfail THEN Failed(d) ELSE Exec(d, st, t)
    IN IF r.ok
       THEN [ok |-> TRUE, db |-> r.db, cache |-> invalidate(c), attempts |-> attempt + 1, slept |-> 0]
       ELSE IF attempt = MAX_RETRIES
            THEN [ok |-> FALSE, db |-> d, cache |-> c, attempts |-> attempt + 1, slept |-> 0]
            ELSE [AttemptOneMore(d, c, st, t, attempt + 1, nfail) EXCEPT !.slept = @ + RETRY_DELAY]

\* DatabaseManager.execute_query: up to MAX_RETRIES attempts; the first nfail
\* attempts meet a store fault, and so does every attempt at a statement the
\* store refuses (both raise aiosqlite.Error); a failed attempt that is not
\* the last is followed by a sleep of RETRY_DELAY seconds; a committed
\* attempt clears the cache
RECURSIVE Attempt(_, _, _, _, _, _)
Attempt(d, c, st, t, attempt, nfail) ==
    LET r == IF attempt < nfail THEN Failed(d) ELSE Exec(d, st, t)
    IN IF r.ok
       THEN [ok |-> TRUE, db |-> r.db, cache |-> invalidate(c), attempts |-> attempt + 1, slept |-> 0]
       ELSE IF attempt = MAX_RETRIES - 1
            THEN [ok |-> FALSE, db |-> d, cache |-> c, attempts |-> attempt + 1, slept |-> 0]
            ELSE [Attempt(d, c, st, t, attempt + 1, nfail) EXCEPT !.slept = @ + RETRY_DELAY]

execute_query(d, c, st, t, nfail) == Attempt(d, c, st, t, 0, nfail)

(***************************************************************************)
(* LedgerManager.  Every method returns its result (named after the       *)
(* return statement taken), the store and the cache it leaves, and the    *)
(* amount it paid or read.                                                 *)
(***************************************************************************)
Ret(result, d, c, value) == [result |-> result, db |-> d, cache |-> c, value |-> value]

\* A method up to its "async with aiosqlite.connect(...)": either it has
\* returned (Return), or it goes on to run stmts as one transaction and to
\* return value when they commit (Begin).
Return(result, d, c) ==
    [result |-> result, db |-> d, cache |-> c, stmts |-> <<>>, value |-> 0]
Begin(stmts, d, c, value) ==
    [result |-> "begin", db |-> d, cache |-> c, stmts |-> stmts, value |-> value]

\* try: BEGIN TRANSACTION ... commit, return True / except: rollback, return False
Complete(d, p, t, fault) ==
    IF p.result # "begin" THEN Ret(p.result, d, p.cache, 0)
    ELSE LET tx == Transaction(d, p.stmts, t, fault)
         IN IF tx.ok THEN Ret("ok", tx.db, p.cache, p.value)
            ELSE Ret("DatabaseError", tx.db, p.cache, 0)

\* the test written amount < 0
NotPositiveStrict(amount) == amount < 0

\* if amount <= 0: return False
NotPositive(amount) == amount <= 0

\* SELECT user_id, username, balance, created_at FROM wallets WHERE user_id = ?
SelectWallet(d, u) ==
    IF u \in DOMAIN d.wallets
    THEN [found |-> TRUE, user_id |-> u, balance |-> d.wallets[u].balance]
    ELSE NoRow

\* get_wallet: Wallet(**row) raises on a negative balance, reported as None
get_wallet(d, c, u, t) ==
    LET f == fetch_one(c, Key("wallet", <<u>>), SelectWallet(d, u), t)
    IN [row |-> IF f.row.found /\ f.row.balance < 0 THEN NoRow ELSE f.row,
        cache |-> f.cache]

create_wallet(d, c, t, u, name, nfail) ==
    LET q == execute_query(d, c,
                 [op |-> "InsertWallet", user |-> u, name |-> name,
                  amount |-> HKN(STARTUP_BONUS)], t, nfail)
    IN Ret(IF q.ok THEN "ok" ELSE "Failed", q.db, q.cache, 0)

\* update_balance: True when the UPDATE was executed and committed
update_balance(d, c, t, user_id, amount, nfail) ==
    LET q == execute_query(d, c,
                 [op |-> "UpdateBalance", user |-> user_id, amount |-> amount], t, nfail)
    IN Ret(IF q.ok THEN "ok" ELSE "Failed", q.db, q.cache, 0)

\* the transfer crediting the receiver twice
TransferStatementsDoubleCredit(sender_id, receiver_id, amount) ==
    << [op |-> "UpdateBalance", user |-> sender_id, amount |-> -amount],
       [op |-> "UpdateBalance", user |-> receiver_id, amount |-> amount + amount],
       [op |-> "InsertTransaction", sender |-> sender_id,
        receiver |-> receiver_id, amount |-> amount] >>

\* the three statements of execute_transfer's transaction
TransferStatements(sender_id, receiver_id, amount) ==
    << [op |-> "UpdateBalance", user |-> sender_id, amount |-> -amount],
       [op |-> "UpdateBalance", user |-> receiver_id, amount |-> amount],
       [op |-> "InsertTransaction", sender |-> sender_id,
        receiver |-> receiver_id, amount |-> amount] >>

execute_transfer_checks(d, c, t, sender_id, receiver_id, amount) ==
    IF NotPositive(amount) THEN Return("InvalidAmount", d, c)
    ELSE
    LET sender_wallet == get_wallet(d, c, sender_id, t)
        receiver_wallet == get_wallet(d, sender_wallet.cache, receiver_id, t)
        c2 == receiver_wallet.cache
    IN IF ~sender_wallet.row.found THEN Return("NotFound", d, c2)
       ELSE IF ~receiver_wallet.row.found THEN Return("NotFound", d, c2)
       ELSE IF sender_wallet.row.balance < amount THEN Return("InsufficientFunds", d, c2)
       ELSE Begin(TransferStatements(sender_id, receiver_id, amount), d, c2, 0)

execute_transfer(d, c, t, sender_id, receiver_id, amount, fault) ==
    LET p == execute_transfer_checks(d, c, t, sender_id, receiver_id, amount)
    IN Complete(p.db, p, t, fault)

\* SELECT name, symbol, decimals, total_supply, current_price FROM token_info
SelectToken(d) ==
    [found |-> TRUE, total_supply |-> d.token.total_supply,
     current_price |-> d.token.current_price]

\* get_token_info: Token(**row) raises on total_supply <= 0 or price < 0
get_token_info(d, c, t) ==
    LET f == fetch_one(c, Key("token_info", <<>>), SelectToken(d), t)
    IN [row |-> IF f.row.found /\ (f.row.total_supply <= 0 \/ f.row.current_price < 0)
                THEN NoRow ELSE f.row,
        cache |-> f.cache]

\* amounts are units, total_supply is whole HKN
ToHKN(amount) == amount \div Scale

\* set_token_price without its test of new_price
set_token_price_unchecked(d, c, t, new_price, nfail) ==
    LET q == execute_query(d, c, [op |-> "UpdatePrice", price |-> new_price], t, nfail)
    IN Ret(IF q.ok THEN "ok" ELSE "Failed", q.db, q.cache, 0)

set_token_price(d, c, t, new_price, nfail) ==
    IF new_price <= 0 THEN Ret("InvalidPrice", d, c, 0)
    ELSE LET q == execute_query(d, c, [op |-> "UpdatePrice", price |-> new_price], t, nfail)
         IN Ret(IF q.ok THEN "ok" ELSE "Failed", q.db, q.cache, 0)

mint_tokens_checks(d, c, t, user_id, amount) ==
    IF NotPositive(amount) THEN Return("InvalidAmount", d, c)
    ELSE
    LET wallet == get_wallet(d, c, user_id, t)
        current_token_info == get_token_info(d, wallet.cache, t)
    IN IF ~wallet.row.found THEN Return("NotFound", d, wallet.cache)
       ELSE IF ~current_token_info.row.found
            THEN Return("Failed", d, current_token_info.cache)
       ELSE LET new_total_supply == current_token_info.row.total_supply + ToHKN(amount)
            IN Begin(<< [op |-> "UpdateBalance", user |-> user_id, amount |-> amount],
                        [op |-> "UpdateSupply", supply |-> new_total_supply],
                        [op |-> "InsertTransaction", sender |-> SYSTEM,
                         receiver |-> user_id, amount |-> amount] >>,
                     d, current_token_info.cache, 0)

mint_tokens(d, c, t, user_id, amount, fault) ==
    LET p == mint_tokens_checks(d, c, t, user_id, amount)
    IN Complete(p.db, p, t, fault)

sell_hkn_to_system_checks(d, c, t, user_id, amount_hkn) ==
    IF NotPositive(amount_hkn) THEN Return("InvalidAmount", d, c)
    ELSE
    LET wallet == get_wallet(d, c, user_id, t)
    IN IF ~wallet.row.found THEN Return("NotFound", d, wallet.cache)
       ELSE IF wallet.row.balance < amount_hkn
            THEN Return("InsufficientFunds", d, wallet.cache)
       ELSE Begin(<< [op |-> "UpdateBalance", user |-> user_id, amount |-> -amount_hkn],
                     [op |-> "InsertTransaction", sender |-> user_id,
                      receiver |-> SYSTEM, amount |-> amount_hkn] >>,
                  d, wallet.cache, 0)

sell_hkn_to_system(d, c, t, user_id, amount_hkn, fault) ==
    LET p == sell_hkn_to_system_checks(d, c, t, user_id, amount_hkn)
    IN Complete(p.db, p, t, fault)

\* the entries of the log that "WHERE sender_id = ? OR receiver_id = ?" keeps
HistoryOf(d, u) ==
    {i \in DOMAIN d.transactions :
        d.transactions[i].sender_id = u \/ d.transactions[i].receiver_id = u}

\* ORDER BY timestamp DESC: the orders in which the store may return the
\* entries of u.  Entries of equal timestamp (CURRENT_TIMESTAMP of the same
\* reading of the clock) come in an order the statement does not fix.
Orders(d, u) ==
    {s \in [1 .. Cardinality(HistoryOf(d, u)) -> HistoryOf(d, u)] :
        /\ \A a, b \in DOMAIN s : a # b => s[a] # s[b]
        /\ \A a, b \in DOMAIN s :
              a < b => d.transactions[s[a]].timestamp >= d.transactions[s[b]].timestamp}

\* LIMIT ? OFFSET ? on the entries in the order the store returns them
SelectHistory(d, order, limit, offset) ==
    [k \in 1 .. (IF Len(order) - offset < 0 THEN 0
                 ELSE IF Len(order) - offset < limit THEN Len(order) - offset
                 ELSE limit) |-> d.transactions[order[offset + k]]]

\* get_transaction_history: the rows come through fetch_all
get_transaction_history(d, c, u, limit, offset, t, order) ==
    fetch_all(c, Key("history", <<u, limit, offset>>),
              SelectHistory(d, order, limit, offset), t)

(***************************************************************************)
(* Staking                                                                 *)
(***************************************************************************)
\* calculate_rewards without "if duration_seconds < 0: duration_seconds = 0"
calculate_rewards_unclamped(stake_amount, start_time, end_time, booster_multiplier) ==
    (stake_amount * (end_time - start_time) * RATE_PER_MILLE * booster_multiplier)
        \div (TicksPerHour * 1000 * 10)

\* reward = stake_amount * (duration_hours * BASE_HOURLY_REWARD_RATE) * booster_multiplier
calculate_rewards(stake_amount, start_time, end_time, booster_multiplier) ==
    LET duration == IF end_time - start_time < 0 THEN 0 ELSE end_time - start_time
    IN (stake_amount * duration * RATE_PER_MILLE * booster_multiplier)
           \div (TicksPerHour * 1000 * 10)

\* the SELECT without "user_id = ?"
SelectBoosterAnyOwner(d, u, pattern, t) ==
    LET rows == {b \in DOMAIN d.boosters :
                    /\ Like(d.boosters[b].booster_type, pattern)
                    /\ d.boosters[b].active_until > t}
    IN IF rows = {} THEN NoRow
       ELSE [found |-> TRUE,
             effect_multiplier |->
                 CHOOSE m \in {d.boosters[b].effect_multiplier : b \in rows} :
                     \A b \in rows : d.boosters[b].effect_multiplier <= m]

\* SELECT effect_multiplier FROM active_boosters WHERE user_id = ? AND
\* booster_type LIKE ? AND active_until > ? ORDER BY effect_multiplier DESC LIMIT 1
SelectBooster(d, u, pattern, t) ==
    LET rows == {b \in DOMAIN d.boosters :
                    /\ d.boosters[b].user_id = u
                    /\ Like(d.boosters[b].booster_type, pattern)
                    /\ d.boosters[b].active_until > t}
    IN IF rows = {} THEN NoRow
       ELSE [found |-> TRUE,
             effect_multiplier |->
                 CHOOSE m \in {d.boosters[b].effect_multiplier : b \in rows} :
                     \A b \in rows : d.boosters[b].effect_multiplier <= m]

\* The parameters of the query hold datetime.now(), so no two calls share a
\* cache key: the row always comes from the store, and the entry that
\* fetch_one leaves under the key of this call is never read again.
get_active_booster_multiplier(d, c, u, booster_type_prefix, t) ==
    LET row == SelectBooster(d, u, booster_type_prefix \o <<"%">>, t)
    IN [multiplier |-> IF row.found THEN row.effect_multiplier ELSE 10,
        cache |-> c]

stake_tokens_checks(d, c, t, user_id, amount) ==
    IF NotPositive(amount) THEN Return("InvalidAmount", d, c)
    ELSE
    LET wallet == get_wallet(d, c, user_id, t)
    IN IF ~wallet.row.found THEN Return("NotFound", d, wallet.cache)
       ELSE IF wallet.row.balance < amount THEN Return("InsufficientFunds", d, wallet.cache)
       ELSE Begin(<< [op |-> "UpdateBalance", user |-> user_id, amount |-> -amount],
                     [op |-> "InsertStake", user |-> user_id, amount |-> amount] >>,
                  d, wallet.cache, 0)

stake_tokens(d, c, t, user_id, amount, fault) ==
    LET p == stake_tokens_checks(d, c, t, user_id, amount)
    IN Complete(p.db, p, t, fault)

\* SELECT user_id, amount, last_claimed_at FROM stakes WHERE stake_id = ?
SelectStake(d, sid) ==
    IF sid \in DOMAIN d.stakes
    THEN [found |-> TRUE, user_id |-> d.stakes[sid].user_id,
          amount |-> d.stakes[sid].amount,
          last_claimed_at |-> d.stakes[sid].last_claimed_at]
    ELSE NoRow

\* SELECT stake_id, amount, created_at, last_claimed_at FROM stakes WHERE user_id = ?
SelectStakesOf(d, u) ==
    [sid \in {x \in DOMAIN d.stakes : d.stakes[x].user_id = u} |->
        [amount |-> d.stakes[sid].amount, created_at |-> d.stakes[sid].created_at,
         last_claimed_at |-> d.stakes[sid].last_claimed_at]]

\* the dictionaries of get_user_stakes, by stake_id: one multiplier for all
pending_of(rows, booster, t) ==
    [stakes |-> [sid \in DOMAIN rows |->
                    [amount |-> rows[sid].amount,
                     created_at |-> rows[sid].created_at,
                     last_claimed_at |-> rows[sid].last_claimed_at,
                     pending_rewards |->
                         calculate_rewards(rows[sid].amount, rows[sid].last_claimed_at,
                                           t, booster.multiplier)]],
     cache |-> booster.cache]

stakes_fetched(d, u, t, fetched) ==
    pending_of(fetched.rows,
               get_active_booster_multiplier(d, fetched.cache, u, speed_staking, t), t)

get_user_stakes(d, c, u, t) ==
    stakes_fetched(d, u, t, fetch_all(c, Key("stakes_of", <<u>>), SelectStakesOf(d, u), t))

\* _calculate_and_update_rewards from "if rewards > 0 and not for_unstake":
\* the UPDATE of last_claimed_at and the tuple returned
update_last_claimed(d, c, t, stake_id, for_unstake, nfail, stake, rewards) ==
    IF rewards > 0 /\ ~for_unstake
    THEN [found |-> TRUE, user_id |-> stake.user_id, staked_amount |-> stake.amount,
          rewards |-> rewards] @@
         execute_query(d, c, [op |-> "UpdateLastClaimed", stake |-> stake_id, at |-> t],
                       t, nfail)
    ELSE [found |-> TRUE, user_id |-> stake.user_id, staked_amount |-> stake.amount,
          rewards |-> rewards, db |-> d, cache |-> c]

\* _calculate_and_update_rewards from the stake row on
rewards_of_stake(d, t, stake_id, for_unstake, nfail, stake, booster) ==
    update_last_claimed(d, booster.cache, t, stake_id, for_unstake, nfail, stake,
        calculate_rewards(stake.amount, stake.last_claimed_at, t, booster.multiplier))

stake_found(d, t, stake_id, for_unstake, nfail, stake_row) ==
    IF ~stake_row.row.found
    THEN [found |-> FALSE, db |-> d, cache |-> stake_row.cache]
    ELSE rewards_of_stake(d, t, stake_id, for_unstake, nfail, stake_row.row,
             get_active_booster_multiplier(d, stake_row.cache, stake_row.row.user_id,
                                           speed_staking, t))

\* _calculate_and_update_rewards: (user_id, staked_amount, rewards), or None
calculate_and_update_rewards(d, c, t, stake_id, for_unstake, nfail) ==
    stake_found(d, t, stake_id, for_unstake, nfail,
        fetch_one(c, Key("stakes", <<stake_id>>), SelectStake(d, stake_id), t))

\* claim_rewards after "result = await self._calculate_and_update_rewards(stake_id)"
claim_of(user_id, calc) ==
    IF ~calc.found THEN Return("NotFound", calc.db, calc.cache)
    ELSE IF calc.user_id # user_id THEN Return("NotOwner", calc.db, calc.cache)
    ELSE IF calc.rewards <= 0 THEN Return("NothingToClaim", calc.db, calc.cache)
    ELSE Begin(<< [op |-> "UpdateBalance", user |-> user_id, amount |-> calc.rewards],
                  [op |-> "InsertTransaction", sender |-> SYSTEM,
                   receiver |-> user_id, amount |-> calc.rewards] >>,
               calc.db, calc.cache, calc.rewards)

claim_rewards_checks(d, c, t, user_id, stake_id, nfail) ==
    claim_of(user_id, calculate_and_update_rewards(d, c, t, stake_id, FALSE, nfail))

claim_rewards(d, c, t, user_id, stake_id, nfail, fault) ==
    LET p == claim_rewards_checks(d, c, t, user_id, stake_id, nfail)
    IN Complete(p.db, p, t, fault)

\* unstake_tokens after "result = await self._calculate_and_update_rewards(...)"
unstake_of(user_id, stake_id, calc) ==
    IF ~calc.found THEN Return("NotFound", calc.db, calc.cache)
    ELSE IF calc.user_id # user_id THEN Return("NotOwner", calc.db, calc.cache)
    ELSE LET total_return_amount == calc.staked_amount + calc.rewards
         IN Begin(<< [op |-> "UpdateBalance", user |-> user_id,
                      amount |-> total_return_amount],
                     [op |-> "DeleteStake", stake |-> stake_id],
                     [op |-> "InsertTransaction", sender |-> SYSTEM,
                      receiver |-> user_id, amount |-> total_return_amount] >>,
                  calc.db, calc.cache, total_return_amount)

unstake_tokens_checks(d, c, t, user_id, stake_id) ==
    unstake_of(user_id, stake_id,
               calculate_and_update_rewards(d, c, t, stake_id, TRUE, 0))

unstake_tokens(d, c, t, user_id, stake_id, fault) ==
    LET p == unstake_tokens_checks(d, c, t, user_id, stake_id)
    IN Complete(p.db, p, t, fault)

(***************************************************************************)
(* Boosters                                                                *)
(***************************************************************************)
BOOSTER_TYPES ==
    { [key |-> speed_24h_15x, cost |-> HKN(100), duration_hours |-> 24, multiplier |-> 15],
      [key |-> speed_7d_2x, cost |-> HKN(500), duration_hours |-> 168, multiplier |-> 20] }

\* booster_key.startswith("speed")
StartsWith(s, prefix) ==
    Len(s) >= Len(prefix) /\ SubSeq(s, 1, Len(prefix)) = prefix

buy_booster_checks(d, c, t, user_id, booster_key) ==
    IF booster_key \notin {b.key : b \in BOOSTER_TYPES} THEN Return("UnknownKey", d, c)
    ELSE
    LET booster_config == CHOOSE b \in BOOSTER_TYPES : b.key = booster_key
        cost == booster_config.cost
        wallet == get_wallet(d, c, user_id, t)
    IN IF ~wallet.row.found THEN Return("NotFound", d, wallet.cache)
       ELSE IF wallet.row.balance < cost THEN Return("InsufficientFunds", d, wallet.cache)
       ELSE LET active_until == t + booster_config.duration_hours * TicksPerHour
            IN Begin(<< [op |-> "UpdateBalance", user |-> user_id, amount |-> -cost] >>
                     \o (IF StartsWith(booster_key, speed)
                         THEN << [op |-> "DeleteSpeedBoosters", user |-> user_id] >>
                         ELSE << >>)
                     \o << [op |-> "InsertBooster", user |-> user_id,
                            key |-> booster_key, until |-> active_until,
                            mult |-> booster_config.multiplier],
                           [op |-> "InsertTransaction", sender |-> user_id,
                            receiver |-> SYSTEM, amount |-> cost] >>,
                     d, wallet.cache, 0)

buy_booster(d, c, t, user_id, booster_key, fault) ==
    LET p == buy_booster_checks(d, c, t, user_id, booster_key)
    IN Complete(p.db, p, t, fault)

(***************************************************************************)
(* The calls of the front end, one action per LedgerManager method        *)
(***************************************************************************)
Usernames == {"user"}
TransferAmounts == {HKN(-5), 0, HKN(60), HKN(150)}
MintAmounts == {HKN(-5), 0, HKN(50)}
SellAmounts == {0, HKN(60)}
StakeAmounts == {0, HKN(10)}
StakeIds == 1 .. MaxStakes
Prices == {0, 1}
BoosterKeys == {speed_24h_15x, speed_7d_2x, <<"x">>}

WithinBounds(d) ==
    /\ Len(d.transactions) <= MaxLog
    /\ d.stake_seq <= MaxStakes

Apply(o) ==
    /\ WithinBounds(o.db)
    /\ db' = o.db
    /\ cache' = o.cache
    /\ UNCHANGED <<now, calls, rewards_call, pool>>

\* a whole method in one step: its checks, then its transaction with a
\* store fault or with none
Run(p) ==
    \E fault \in FaultsAt(p) : Apply(Complete(p.db, p, now, fault))

CreateWallet ==
    \E u \in UserIds, name \in Usernames, nfail \in 0 .. MAX_RETRIES :
        Apply(create_wallet(db, cache, now, u, name, nfail))

GetWallet ==
    \E u \in UserIds :
        /\ cache' = get_wallet(db, cache, u, now).cache
        /\ UNCHANGED <<db, now, calls, rewards_call, pool>>

Transfer ==
    \E s \in UserIds, r \in UserIds, a \in TransferAmounts :
        Run(execute_transfer_checks(db, cache, now, s, r, a))

Mint ==
    \E u \in UserIds, a \in MintAmounts :
        Run(mint_tokens_checks(db, cache, now, u, a))

SellToSystem ==
    \E u \in UserIds, a \in SellAmounts :
        Run(sell_hkn_to_system_checks(db, cache, now, u, a))

SetTokenPrice ==
    \E p \in Prices, nfail \in 0 .. MAX_RETRIES :
        Apply(set_token_price(db, cache, now, p, nfail))

Stake ==
    \E u \in UserIds, a \in StakeAmounts :
        Run(stake_tokens_checks(db, cache, now, u, a))

ClaimRewards ==
    \E u \in UserIds, sid \in StakeIds, nfail \in 0 .. MAX_RETRIES :
        Run(claim_rewards_checks(db, cache, now, u, sid, nfail))

Unstake ==
    \E u \in UserIds, sid \in StakeIds :
        Run(unstake_tokens_checks(db, cache, now, u, sid))

BuyBooster ==
    \E u \in UserIds, k \in BoosterKeys :
        Run(buy_booster_checks(db, cache, now, u, k))

GetUserStakes ==
    \E u \in UserIds :
        /\ cache' = get_user_stakes(db, cache, u, now).cache
        /\ UNCHANGED <<db, now, calls, rewards_call, pool>>

\* <<limit, offset>>: the default page and a later page of one entry
Pages == {<<5, 0>>, <<1, 1>>}

GetHistory ==
    \E u \in UserIds, page \in Pages :
        \E order \in Orders(db, u) :
            /\ cache' = get_transaction_history(db, cache, u, page[1], page[2], now, order).cache
            /\ UNCHANGED <<db, now, calls, rewards_call, pool>>

Tick ==
    /\ now < MaxTime
    /\ now' = now + 1
    /\ UNCHANGED <<db, cache, calls, rewards_call, pool>>

\* ConnectionPool.__init__: no connection created, an empty queue, no caller
NoPool == [created |-> 0, idle |-> 0, closed |-> 0, pc |-> <<>>]

\* no call of calculate_rewards under observation
NoCall ==
    [stake_amount |-> 0, start_time |-> 0, end_time |-> 0,
     booster_multiplier |-> 10, value |-> 0, returned |-> FALSE]

Init ==
    /\ db = InitDB
    /\ cache = EmptyTable
    /\ now = 0
    /\ calls = EmptyBag
    /\ rewards_call = NoCall
    /\ pool = NoPool

Next ==
    \/ CreateWallet
    \/ GetWallet
    \/ Transfer
    \/ Mint
    \/ SellToSystem
    \/ SetTokenPrice
    \/ Stake
    \/ ClaimRewards
    \/ Unstake
    \/ BuyBooster
    \/ Tick

Spec == Init /\ [][Next]_vars

(***************************************************************************)
(* Staking with boosters: the methods that open a stake, buy a booster    *)
(* and list the stakes of a user with their pending rewards.               *)
(***************************************************************************)
NextStaking ==
    \/ CreateWallet
    \/ Mint
    \/ Stake
    \/ BuyBooster
    \/ GetUserStakes
    \/ Tick

SpecStaking == Init /\ [][NextStaking]_vars

(***************************************************************************)
(* update_balance, which no other method calls, with the wallets it works *)
(* on.                                                                     *)
(***************************************************************************)
MaxBalance == 200
Deltas == {HKN(-150), HKN(-60), HKN(50)}

UpdateBalanceCall ==
    \E u \in UserIds, delta \in Deltas, nfail \in 0 .. MAX_RETRIES :
        LET o == update_balance(db, cache, now, u, delta, nfail)
        IN /\ \A v \in DOMAIN o.db.wallets : o.db.wallets[v].balance <= HKN(MaxBalance)
           /\ Apply(o)

NextBalance ==
    \/ CreateWallet
    \/ GetWallet
    \/ UpdateBalanceCall
    \/ Tick

SpecBalance == Init /\ [][NextBalance]_vars

(***************************************************************************)
(* ConnectionPool.  get_connection takes an idle connection from the      *)
(* queue, or creates one, or waits for one; a caller is suspended at each  *)
(* await, where the others run.  The pool starts as init_pool leaves it,   *)
(* with fewer connections than max_size (5 of 50 in the program).          *)
(***************************************************************************)
max_size == 2
InitialPool == 1
MaxCallers == 4
MaxCreated == 5
PoolCallers == 1 .. MaxCallers

Min(a, b) == IF a < b THEN a ELSE b

\* init_pool: min(5, max_size) connections created and put in the queue
InitPool ==
    /\ db = InitDB
    /\ cache = EmptyTable
    /\ now = 0
    /\ calls = EmptyBag
    /\ rewards_call = NoCall
    /\ pool = [created |-> Min(InitialPool, max_size), idle |-> Min(InitialPool, max_size),
               closed |-> 0, pc |-> [c \in PoolCallers |-> "out"]]

\* the connections that callers are creating
Creating == Cardinality({c \in PoolCallers : pool.pc[c] = "creating"})

\* get_connection up to its first await, or to the yield
GetConnection(c) ==
    /\ pool.pc[c] = "out"
    /\ pool.created + Creating < MaxCreated
    /\ pool' = IF pool.idle > 0
               THEN [pool EXCEPT !.idle = @ - 1, !.pc[c] = "holding"]
               ELSE IF pool.created < max_size
                    THEN [pool EXCEPT !.pc[c] = "creating"]
                    ELSE [pool EXCEPT !.pc[c] = "waiting"]
    /\ UNCHANGED <<db, cache, now, calls, rewards_call>>

\* _create_connection returns: self._created_connections += 1
CreateConnection(c) ==
    /\ pool.pc[c] = "creating"
    /\ pool' = [pool EXCEPT !.created = @ + 1, !.pc[c] = "holding"]
    /\ UNCHANGED <<db, cache, now, calls, rewards_call>>

\* await self._pool.get() returns a released connection
WaitConnection(c) ==
    /\ pool.pc[c] = "waiting"
    /\ pool.idle > 0
    /\ pool' = [pool EXCEPT !.idle = @ - 1, !.pc[c] = "holding"]
    /\ UNCHANGED <<db, cache, now, calls, rewards_call>>

\* finally: put_nowait(conn), or conn.close() when the queue is full
ReleaseConnection(c) ==
    /\ pool.pc[c] = "holding"
    /\ pool' = IF pool.idle < max_size
               THEN [pool EXCEPT !.idle = @ + 1, !.pc[c] = "out"]
               ELSE [pool EXCEPT !.closed = @ + 1, !.pc[c] = "out"]
    /\ UNCHANGED <<db, cache, now, calls, rewards_call>>

NextPool ==
    \E c \in PoolCallers :
        \/ GetConnection(c)
        \/ CreateConnection(c)
        \/ WaitConnection(c)
        \/ ReleaseConnection(c)

SpecPool == InitPool /\ [][NextPool]_vars

(***************************************************************************)
(* CacheManager on its own, with keys as sequences of characters.          *)
(***************************************************************************)
MaxCacheTime == 3
CacheKeys == {<<"a">>, <<"a", "b">>, <<"b", "a">>}
CacheValues == {"v", "w"}
Ttls == {0, 2 * SecondsPerTick}
Patterns == {<<"a">>, <<"b">>, <<"a", "b">>}

CacheGet ==
    \E k \in CacheKeys :
        /\ cache' = get(cache, k, now).cache
        /\ UNCHANGED <<db, now, calls, rewards_call, pool>>

CacheSetCall ==
    \E k \in CacheKeys, v \in CacheValues, ttl \in Ttls :
        /\ cache' = set(cache, k, v, ttl, now)
        /\ UNCHANGED <<db, now, calls, rewards_call, pool>>

InvalidateAll ==
    /\ cache' = invalidate(cache)
    /\ UNCHANGED <<db, now, calls, rewards_call, pool>>

InvalidatePattern ==
    \E pattern \in Patterns :
        /\ cache' = invalidate_pattern(cache, pattern)
        /\ UNCHANGED <<db, now, calls, rewards_call, pool>>

CleanupExpired ==
    /\ cache' = cleanup_expired(cache, now)
    /\ UNCHANGED <<db, now, calls, rewards_call, pool>>

CacheTick ==
    /\ now < MaxCacheTime
    /\ now' = now + 1
    /\ UNCHANGED <<db, cache, calls, rewards_call, pool>>

NextCache ==
    \/ CacheGet
    \/ CacheSetCall
    \/ InvalidateAll
    \/ InvalidatePattern
    \/ CleanupExpired
    \/ CacheTick

SpecCache == Init /\ [][NextCache]_vars

(***************************************************************************)
(* calculate_rewards on its own: a call with arguments drawn from the      *)
(* amounts, the times and the multipliers below returns its value.         *)
(***************************************************************************)
MaxRewardTime == 30
RewardTimes == 0 .. MaxRewardTime
RewardAmounts == {HKN(10), HKN(25)}
Multipliers == {b.multiplier : b \in BOOSTER_TYPES} \cup {10}

InitRewards ==
    /\ db = InitDB
    /\ cache = EmptyTable
    /\ now = 0
    /\ calls = EmptyBag
    /\ pool = NoPool
    /\ rewards_call \in [stake_amount : RewardAmounts, start_time : RewardTimes,
                         end_time : RewardTimes, booster_multiplier : Multipliers,
                         value : {0}, returned : {FALSE}]

CalculateRewards ==
    /\ ~rewards_call.returned
    /\ rewards_call' = [rewards_call EXCEPT
                     !.value = calculate_rewards(rewards_call.stake_amount, rewards_call.start_time,
                                                 rewards_call.end_time, rewards_call.booster_multiplier),
                     !.returned = TRUE]
    /\ UNCHANGED <<db, cache, now, calls, pool>>

NextRewards == CalculateRewards

SpecRewards == InitRewards /\ [][NextRewards]_vars

(***************************************************************************)
(* The log and its reader: transfers between two accounts append entries  *)
(* and get_transaction_history reads them.                                 *)
(***************************************************************************)
NextHistory ==
    \/ CreateWallet
    \/ Transfer
    \/ GetHistory
    \/ Tick

SpecHistory == Init /\ [][NextHistory]_vars

(***************************************************************************)
(* The methods that write wallets, run by concurrent coroutines.  A       *)
(* coroutine runs a                                                        *)
(* method up to its transaction in one step (its reads see the committed  *)
(* store and the shared cache) and the transaction in a later step (the   *)
(* store admits one writer at a time, so a transaction takes effect as a  *)
(* whole or not at all); the steps of other coroutines and of the clock   *)
(* come between the two.  calls holds the transactions under way.         *)
(***************************************************************************)
Failures == {0, 1, MAX_RETRIES}
Positive(S) == {a \in S : ~NotPositive(a)}

Inserts(stmts, op) == Cardinality({i \in DOMAIN stmts : stmts[i].op = op})

\* rows of one table that stmts and the transactions under way add, at most
Room(stmts, op) ==
    Inserts(stmts, op)
    + Cardinality({x \in BagToSet(calls) \X (1 .. MaxCalls) \X (1 .. 4) :
                      /\ x[2] <= CopiesIn(x[1], calls)
                      /\ x[3] \in DOMAIN x[1].stmts
                      /\ x[1].stmts[x[3]].op = op})

\* a coroutine runs a method that holds no explicit transaction
Call(o) ==
    /\ WithinBounds(o.db)
    /\ db' = o.db
    /\ cache' = o.cache
    /\ UNCHANGED <<now, calls, rewards_call, pool>>

\* a coroutine runs a method up to "async with aiosqlite.connect(...)"
Enter(o) ==
    /\ BagCardinality(calls) < MaxCalls
    /\ Len(o.db.transactions) + Room(o.stmts, "InsertTransaction") <= MaxLog
    /\ o.db.stake_seq + Room(o.stmts, "InsertStake") <= MaxStakes
    /\ db' = o.db
    /\ cache' = o.cache
    /\ calls' = IF o.result = "begin"
                THEN calls (+) SetToBag({[stmts |-> o.stmts, value |-> o.value]})
                ELSE calls
    /\ UNCHANGED <<now, rewards_call, pool>>

CreateWalletCall ==
    \E u \in UserIds, name \in Usernames, nfail \in Failures :
        Call(create_wallet(db, cache, now, u, name, nfail))

TransferEnter ==
    \E s \in UserIds, r \in UserIds, a \in Positive(TransferAmounts) :
        Enter(execute_transfer_checks(db, cache, now, s, r, a))

MintEnter ==
    \E u \in UserIds, a \in Positive(MintAmounts) :
        Enter(mint_tokens_checks(db, cache, now, u, a))

SellToSystemEnter ==
    \E u \in UserIds, a \in Positive(SellAmounts) :
        Enter(sell_hkn_to_system_checks(db, cache, now, u, a))

StakeEnter ==
    \E u \in UserIds, a \in Positive(StakeAmounts) :
        Enter(stake_tokens_checks(db, cache, now, u, a))

ClaimRewardsEnter ==
    \E u \in UserIds, sid \in StakeIds, nfail \in Failures :
        Enter(claim_rewards_checks(db, cache, now, u, sid, nfail))

UnstakeEnter ==
    \E u \in UserIds, sid \in StakeIds :
        Enter(unstake_tokens_checks(db, cache, now, u, sid))

BuyBoosterEnter ==
    \E u \in UserIds, k \in BoosterKeys :
        Enter(buy_booster_checks(db, cache, now, u, k))

\* a transaction under way runs: commit, or a store error and rollback
Commit ==
    \E x \in BagToSet(calls) :
        /\ \E fault \in Faults(Len(x.stmts)) :
              db' = Transaction(db, x.stmts, now, fault).db
        /\ calls' = calls (-) SetToBag({x})
        /\ UNCHANGED <<cache, now, rewards_call, pool>>

NextConcurrent ==
    \/ CreateWalletCall
    \/ TransferEnter
    \/ MintEnter
    \/ SellToSystemEnter
    \/ StakeEnter
    \/ ClaimRewardsEnter
    \/ UnstakeEnter
    \/ BuyBoosterEnter
    \/ Commit
    \/ Tick

SpecConcurrent == Init /\ [][NextConcurrent]_vars

(***************************************************************************)
(* claim_rewards run by concurrent coroutines, step by step:               *)
(* _calculate_and_update_rewards reads the stake row and the clock, and    *)
(* its UPDATE of last_claimed_at runs after an await, with the time that   *)
(* was read; the transaction that credits the reward follows.  calls holds *)
(* the claims that have read and not yet written.                          *)
(***************************************************************************)
MaxClaimTime == 2

\* up to "rewards = self.calculate_rewards(...)"
ClaimRewardsRead ==
    \E u \in UserIds, sid \in StakeIds :
        LET stake_row == fetch_one(cache, Key("stakes", <<sid>>), SelectStake(db, sid), now)
            booster == get_active_booster_multiplier(db, stake_row.cache,
                           stake_row.row.user_id, speed_staking, now)
        IN /\ BagCardinality(calls) < MaxCalls
           /\ cache' = stake_row.cache
           /\ calls' = IF stake_row.row.found
                       THEN calls (+) SetToBag({[user_id |-> u,
                                stake_id |-> sid, stake |-> stake_row.row,
                                current_time |-> now,
                                rewards |-> calculate_rewards(stake_row.row.amount,
                                                stake_row.row.last_claimed_at, now,
                                                booster.multiplier)]})
                       ELSE calls
           /\ UNCHANGED <<db, now, rewards_call, pool>>

\* the UPDATE of last_claimed_at, and the rest of claim_rewards: its checks
\* and its transaction, with a store fault or with none
ClaimRewardsUpdate ==
    \E x \in BagToSet(calls), nfail \in Failures :
        LET calc == update_last_claimed(db, cache, x.current_time, x.stake_id, FALSE,
                                        nfail, x.stake, x.rewards)
            p == claim_of(x.user_id, calc)
        IN /\ \E fault \in FaultsAt(p) :
                  LET o == Complete(p.db, p, now, fault)
                  IN WithinBounds(o.db) /\ db' = o.db /\ cache' = o.cache
           /\ calls' = calls (-) SetToBag({x})
           /\ UNCHANGED <<now, rewards_call, pool>>

ClaimTick ==
    /\ now < MaxClaimTime
    /\ now' = now + 1
    /\ UNCHANGED <<db, cache, calls, rewards_call, pool>>

NextClaims ==
    \/ CreateWallet
    \/ Stake
    \/ Unstake
    \/ ClaimRewardsRead
    \/ ClaimRewardsUpdate
    \/ ClaimTick

SpecClaims == Init /\ [][NextClaims]_vars

(***************************************************************************)
(* fetch_one run by coroutines beside execute_query: after a miss the row  *)
(* is read from the store at "await db.execute" and is put in the cache    *)
(* when the coroutine runs again after "await cursor.fetchone()"; other    *)
(* coroutines run in between.  calls holds the rows read and not yet       *)
(* cached.  The reads are those of get_wallet, the writes those of         *)
(* create_wallet and update_balance.                                       *)
(***************************************************************************)
\* fetch_one up to "result = await cursor.fetchone()"
FetchOneRead ==
    \E u \in UserIds :
        LET k == Key("wallet", <<u>>)
        IN /\ BagCardinality(calls) < MaxCalls
           /\ ~CacheHit(cache, k, now)
           /\ cache' = CacheAfterGet(cache, k, now)
           /\ calls' = calls (+) SetToBag({[cache_key |-> k, result |-> SelectWallet(db, u)]})
           /\ UNCHANGED <<db, now, rewards_call, pool>>

\* if cache_key and result: self.cache.set(cache_key, result)
FetchOneSet ==
    \E x \in BagToSet(calls) :
        /\ cache' = IF x.result.found THEN CacheSet(cache, x.cache_key, x.result, now)
                    ELSE cache
        /\ calls' = calls (-) SetToBag({x})
        /\ UNCHANGED <<db, now, rewards_call, pool>>

\* update_balance crediting 50 HKN
UpdateBalanceCredit ==
    \E u \in UserIds, nfail \in Failures :
        LET o == update_balance(db, cache, now, u, HKN(50), nfail)
        IN /\ \A v \in DOMAIN o.db.wallets : o.db.wallets[v].balance <= HKN(MaxBalance)
           /\ Apply(o)

NextFetch ==
    \/ CreateWallet
    \/ UpdateBalanceCredit
    \/ FetchOneRead
    \/ FetchOneSet
    \/ Tick

SpecFetch == Init /\ [][NextFetch]_vars

(***************************************************************************)
(* The booster market over days.  Accounts are funded by a mint large     *)
(* enough for every booster of BOOSTER_TYPES, and the clock also moves by *)
(* whole days, so that a booster is bought over another one and a booster *)
(* of 24 hours runs out.                                                   *)
(***************************************************************************)
MaxMarketLog == 3
MaxDays == 1

TicksPerDay == 24 * TicksPerHour
FundAmounts == {HKN(1000)}

MarketApply(o) ==
    /\ Len(o.db.transactions) <= MaxMarketLog
    /\ db' = o.db
    /\ cache' = o.cache
    /\ UNCHANGED <<now, calls, rewards_call, pool>>

MarketRun(p) ==
    \E fault \in FaultsAt(p) : MarketApply(Complete(p.db, p, now, fault))

MarketCreateWallet ==
    \E u \in UserIds, name \in Usernames, nfail \in 0 .. MAX_RETRIES :
        MarketApply(create_wallet(db, cache, now, u, name, nfail))

Fund ==
    \E u \in UserIds, a \in FundAmounts :
        MarketRun(mint_tokens_checks(db, cache, now, u, a))

MarketBuyBooster ==
    \E u \in UserIds, k \in BoosterKeys :
        MarketRun(buy_booster_checks(db, cache, now, u, k))

Day ==
    /\ now < MaxDays * TicksPerDay
    /\ now' = now + TicksPerDay
    /\ UNCHANGED <<db, cache, calls, rewards_call, pool>>

NextMarket ==
    \/ MarketCreateWallet
    \/ Fund
    \/ MarketBuyBooster
    \/ Tick
    \/ Day

SpecMarket == Init /\ [][NextMarket]_vars

(***************************************************************************)
(* Quantities the claims speak of                                          *)
(***************************************************************************)
RECURSIVE SumOver(_, _)
SumOver(f, S) ==
    IF S = {} THEN 0
    ELSE LET x == CHOOSE x \in S : TRUE IN f[x] + SumOver(f, S \ {x})

SumBalances(d) == SumOver([u \in DOMAIN d.wallets |-> d.wallets[u].balance], DOMAIN d.wallets)

\* the amounts of the entries of the log numbered in S
LogSum(d, S) == SumOver([i \in DOMAIN d.transactions |-> d.transactions[i].amount], S)

MintEntries(d) == {i \in DOMAIN d.transactions : d.transactions[i].sender_id = SYSTEM}
BurnEntries(d) == {i \in DOMAIN d.transactions : d.transactions[i].receiver_id = SYSTEM}

PositiveAmounts == {a \in TransferAmounts \cup MintAmounts \cup SellAmounts \cup StakeAmounts : a > 0}
NonPositiveAmounts == {a \in TransferAmounts \cup MintAmounts \cup SellAmounts \cup StakeAmounts : a <= 0}

\* the stake ids that were issued and whose row a successful unstake removed
ClosedStakes(d) == (1 .. d.stake_seq) \ DOMAIN d.stakes

(***************************************************************************)
(* C1.  In every reachable state, after any sequence and any interleaving *)
(* of the methods run by concurrent callers, the committed balance of     *)
(* every account is >= 0.                                                  *)
(***************************************************************************)
C1_NonNegativeBalances ==
    \A u \in DOMAIN db.wallets : db.wallets[u].balance >= 0

\* A transaction under way holds a debit that passed the balance test of
\* its method and that the committed balance no longer covers.
C1_Witness ==
    \E x \in BagToSet(calls) : \E i \in DOMAIN x.stmts :
        /\ x.stmts[i].op = "UpdateBalance"
        /\ x.stmts[i].user \in DOMAIN db.wallets
        /\ db.wallets[x.stmts[i].user].balance + x.stmts[i].amount < 0

(***************************************************************************)
(* C2.  Conservation: the sum of all balances equals the mint entries     *)
(* (sender_id = 0) plus the startup bonuses minus the burn/sell entries   *)
(* (receiver_id = 0).                                                      *)
(***************************************************************************)
C2_Conservation ==
    SumBalances(db) = LogSum(db, MintEntries(db))
                      + Cardinality(DOMAIN db.wallets) * HKN(STARTUP_BONUS)
                      - LogSum(db, BurnEntries(db))

(***************************************************************************)
(* C3.  A successful transfer between two different accounts takes amount *)
(* from the sender, gives amount to the receiver, appends exactly one     *)
(* entry (sender, receiver, amount), and leaves the sum of balances, the  *)
(* other accounts, total_supply, the stakes and the boosters unchanged.   *)
(***************************************************************************)
C3_TransferZeroSum ==
    \A s, r \in UserIds, a \in TransferAmounts :
        LET o == execute_transfer(db, cache, now, s, r, a, 0)
        IN (s # r /\ o.result = "ok") =>
              /\ o.db.wallets = [db.wallets EXCEPT ![s].balance = @ - a,
                                                   ![r].balance = @ + a]
              /\ Len(o.db.transactions) = Len(db.transactions) + 1
              /\ SubSeq(o.db.transactions, 1, Len(db.transactions)) = db.transactions
              /\ LET e == o.db.transactions[Len(o.db.transactions)]
                 IN e.sender_id = s /\ e.receiver_id = r /\ e.amount = a
              /\ SumBalances(o.db) = SumBalances(db)
              /\ o.db.token = db.token
              /\ o.db.stakes = db.stakes
              /\ o.db.boosters = db.boosters

\* a transfer between two different accounts has been committed
C3_Witness ==
    \E i \in DOMAIN db.transactions :
        /\ db.transactions[i].sender_id \in UserIds
        /\ db.transactions[i].receiver_id \in UserIds
        /\ db.transactions[i].sender_id # db.transactions[i].receiver_id

(***************************************************************************)
(* C4.  A store fault inside the transaction of execute_transfer, after   *)
(* the sender was debited and before the commit took effect, leaves both  *)
(* balances and the log as before the call, and the call reports failure. *)
(***************************************************************************)
C4_TransferAtomic ==
    \A s, r \in UserIds, a \in TransferAmounts, f \in 2 .. 4 :
        LET o == execute_transfer(db, cache, now, s, r, a, f)
        IN execute_transfer(db, cache, now, s, r, a, 0).result = "ok" =>
              /\ o.result # "ok"
              /\ o.db = db

\* a transfer that would commit is struck by a fault after the debit
C4_Witness ==
    \E s, r \in UserIds, a \in TransferAmounts :
        /\ s # r
        /\ execute_transfer(db, cache, now, s, r, a, 0).result = "ok"
        /\ execute_transfer(db, cache, now, s, r, a, 2).result = "DatabaseError"

(***************************************************************************)
(* C5.  Transfer, SellToSystem, OpenStake and Buy with an amount (cost)   *)
(* above the committed balance fail with InsufficientFunds and change     *)
(* nothing; they are never refused for insufficient funds when the        *)
(* committed balance covers the amount.                                    *)
(***************************************************************************)
OverdraftRule(u, a, o) ==
    /\ a > db.wallets[u].balance => (o.result = "InsufficientFunds" /\ o.db = db)
    /\ a <= db.wallets[u].balance => o.result # "InsufficientFunds"

C5_Overdraft ==
    \A u \in DOMAIN db.wallets :
        /\ \A r \in DOMAIN db.wallets, a \in PositiveAmounts :
              OverdraftRule(u, a, execute_transfer(db, cache, now, u, r, a, 0))
        /\ \A a \in PositiveAmounts :
              /\ OverdraftRule(u, a, sell_hkn_to_system(db, cache, now, u, a, 0))
              /\ OverdraftRule(u, a, stake_tokens(db, cache, now, u, a, 0))
        /\ \A b \in BOOSTER_TYPES :
              OverdraftRule(u, b.cost, buy_booster(db, cache, now, u, b.key, 0))

(***************************************************************************)
(* C6.  Transfer, Mint and SellToSystem with amount <= 0 return           *)
(* InvalidAmount and change no balance, no ledger entry and not           *)
(* total_supply.                                                           *)
(***************************************************************************)
C6_InvalidAmount ==
    \A u, r \in UserIds, a \in NonPositiveAmounts :
        /\ LET o == execute_transfer(db, cache, now, u, r, a, 0)
           IN o.result = "InvalidAmount" /\ o.db = db
        /\ LET o == mint_tokens(db, cache, now, u, a, 0)
           IN o.result = "InvalidAmount" /\ o.db = db
        /\ LET o == sell_hkn_to_system(db, cache, now, u, a, 0)
           IN o.result = "InvalidAmount" /\ o.db = db

\* both accounts exist and the receiver holds enough for a transfer of
\* -5 HKN to run backwards, were it not refused
C6_Witness ==
    /\ DOMAIN db.wallets = UserIds
    /\ \A u \in UserIds : db.wallets[u].balance >= HKN(5)
    /\ Len(db.transactions) > 0
    /\ execute_transfer(db, cache, now, 1, 2, HKN(-5), 0).result = "InvalidAmount"

(***************************************************************************)
(* C7.  Every successful Mint increases the balance of the target and     *)
(* total_supply by the same amount and appends one entry with sender 0,   *)
(* so that total_supply is its initial value plus all minted amounts.     *)
(***************************************************************************)
C7_MintSupply ==
    \A u \in UserIds, a \in MintAmounts :
        LET o == mint_tokens(db, cache, now, u, a, 0)
        IN o.result = "ok" =>
              /\ o.db.wallets[u].balance = db.wallets[u].balance + a
              /\ o.db.token.total_supply = db.token.total_supply + ToHKN(a)
              /\ Len(o.db.transactions) = Len(db.transactions) + 1
              /\ o.db.transactions[Len(o.db.transactions)].sender_id = SYSTEM

(***************************************************************************)
(* C8.  After any committed write, GetAccount(id) with the cache allowed  *)
(* returns the committed balance of the account.                           *)
(***************************************************************************)
C8_CacheCoherent ==
    \A u \in DOMAIN db.wallets :
        LET w == get_wallet(db, cache, u, now)
        IN w.row.found /\ w.row.balance = db.wallets[u].balance

(***************************************************************************)
(* C9.  Closed is terminal: once CloseStake has succeeded on a stake,     *)
(* every later ClaimReward or CloseStake on it returns NotFound and       *)
(* changes no balance.                                                     *)
(***************************************************************************)
C9_ClosedIsTerminal ==
    \A sid \in ClosedStakes(db), u \in UserIds :
        /\ LET o == unstake_tokens(db, cache, now, u, sid, 0)
           IN o.result = "NotFound" /\ o.db.wallets = db.wallets
        /\ LET o == claim_rewards(db, cache, now, u, sid, 0, 0)
           IN o.result = "NotFound" /\ o.db.wallets = db.wallets

(***************************************************************************)
(* C10.  ClaimReward and CloseStake by a user who is not the owner of the *)
(* stake return NotOwner and change nothing: not last_claimed_at or the   *)
(* amount of the stake, no balance, no ledger entry.                       *)
(***************************************************************************)
C10_NotOwner ==
    \A sid \in DOMAIN db.stakes, u \in UserIds :
        u # db.stakes[sid].user_id =>
            /\ LET o == claim_rewards(db, cache, now, u, sid, 0, 0)
               IN o.result = "NotOwner" /\ o.db = db
            /\ LET o == unstake_tokens(db, cache, now, u, sid, 0)
               IN o.result = "NotOwner" /\ o.db = db

(***************************************************************************)
(* C11.  ClaimReward is one atomic unit: whatever store fault strikes it, *)
(* the credit of the balance, the advance of last_claimed_at and the      *)
(* ledger entry take effect all together or not at all; last_claimed_at   *)
(* is never advanced without the reward having been credited.              *)
(***************************************************************************)
C11_ClaimAtomic ==
    \A sid \in DOMAIN db.stakes, nfail \in 0 .. MAX_RETRIES, f \in Faults(2) :
        LET u == db.stakes[sid].user_id
            o == claim_rewards(db, cache, now, u, sid, nfail, f)
        IN \/ o.db = db
           \/ /\ o.result = "ok"
              /\ o.db.stakes[sid].last_claimed_at = now
              /\ o.db.wallets[u].balance = db.wallets[u].balance + o.value
              /\ Len(o.db.transactions) = Len(db.transactions) + 1

\* the reward that has accrued on stake sid of the store at time t, at the
\* multiplier the staking methods look up for its owner
PendingReward(d, c, sid, t) ==
    calculate_rewards(d.stakes[sid].amount, d.stakes[sid].last_claimed_at, t,
        get_active_booster_multiplier(d, c, d.stakes[sid].user_id, speed_staking, t).multiplier)

\* 0.001 HKN
DustThreshold == Scale \div 1000

(***************************************************************************)
(* C12.  ClaimReward pays only a reward above the dust threshold of       *)
(* 0.001: while the reward accrued on a stake is at or below it, a claim  *)
(* by the owner returns NothingToClaim and changes nothing.                *)
(***************************************************************************)
C12_DustThreshold ==
    \A sid \in DOMAIN db.stakes :
        LET o == claim_rewards(db, cache, now, db.stakes[sid].user_id, sid, 0, 0)
        IN PendingReward(db, cache, sid, now) <= DustThreshold =>
              o.result = "NothingToClaim" /\ o.db = db

(***************************************************************************)
(* C13.  Claim idempotence: when the owner's ClaimReward has succeeded    *)
(* and is called again at once (at the same reading of the clock, or at   *)
(* the next one with the reward accrued in between within the dust        *)
(* threshold), the second call returns NothingToClaim and changes no      *)
(* balance.                                                                *)
(***************************************************************************)
C13_ClaimIdempotent ==
    \A sid \in DOMAIN db.stakes, t2 \in {now, now + 1} :
        LET u == db.stakes[sid].user_id
            o1 == claim_rewards(db, cache, now, u, sid, 0, 0)
            o2 == claim_rewards(o1.db, o1.cache, t2, u, sid, 0, 0)
        IN (o1.result = "ok" /\ PendingReward(o1.db, o1.cache, sid, t2) <= DustThreshold) =>
              o2.result = "NothingToClaim" /\ o2.db.wallets = o1.db.wallets

\* amount x hoursElapsed x BASE_HOURLY_RATE x multiplier, for a duration in
\* ticks and a multiplier in tenths
Reward(amount, elapsed, multiplier) ==
    (amount * elapsed * RATE_PER_MILLE * multiplier) \div (TicksPerHour * 1000 * 10)

\* ActiveMultiplier of the owner of stake sid for the category of the
\* boosters on sale
OwnerMultiplier(d, c, sid, t) ==
    get_active_booster_multiplier(d, c, d.stakes[sid].user_id, speed, t).multiplier

(***************************************************************************)
(* C14.  A ClaimReward that succeeds pays the owner exactly amount x      *)
(* hoursElapsed(last_claimed_at, now) x BASE_HOURLY_RATE x multiplier,    *)
(* the multiplier being the active multiplier of the owner, sets          *)
(* last_claimed_at to now, leaves the amount and created_at of the stake  *)
(* unchanged and appends one ledger entry with sender 0, the owner as     *)
(* receiver and the reward as amount.                                      *)
(***************************************************************************)
C14_ClaimPaysReward ==
    \A sid \in DOMAIN db.stakes :
        LET u == db.stakes[sid].user_id
            o == claim_rewards(db, cache, now, u, sid, 0, 0)
            reward == Reward(db.stakes[sid].amount, now - db.stakes[sid].last_claimed_at,
                             OwnerMultiplier(db, cache, sid, now))
            n == Len(db.transactions)
        IN o.result = "ok" =>
              /\ o.value = reward
              /\ o.db.wallets = [db.wallets EXCEPT ![u].balance = @ + reward]
              /\ o.db.stakes = [db.stakes EXCEPT ![sid].last_claimed_at = now]
              /\ Len(o.db.transactions) = n + 1
              /\ SubSeq(o.db.transactions, 1, n) = db.transactions
              /\ o.db.transactions[n + 1].sender_id = SYSTEM
              /\ o.db.transactions[n + 1].receiver_id = u
              /\ o.db.transactions[n + 1].amount = reward

(***************************************************************************)
(* C15.  A CloseStake that succeeds credits principal + reward to the     *)
(* owner's balance, deletes the row of the stake and appends two ledger   *)
(* entries with sender 0, one of the principal and one of the reward.     *)
(***************************************************************************)
C15_CloseStake ==
    \A sid \in DOMAIN db.stakes :
        LET u == db.stakes[sid].user_id
            o == unstake_tokens(db, cache, now, u, sid, 0)
            principal == db.stakes[sid].amount
            reward == Reward(principal, now - db.stakes[sid].last_claimed_at,
                             OwnerMultiplier(db, cache, sid, now))
            n == Len(db.transactions)
        IN o.result = "ok" =>
              /\ o.db.wallets = [db.wallets EXCEPT ![u].balance = @ + principal + reward]
              /\ DOMAIN o.db.stakes = DOMAIN db.stakes \ {sid}
              /\ Len(o.db.transactions) = n + 2
              /\ \A i \in {n + 1, n + 2} :
                    /\ o.db.transactions[i].sender_id = SYSTEM
                    /\ o.db.transactions[i].receiver_id = u
              /\ {o.db.transactions[n + 1].amount, o.db.transactions[n + 2].amount}
                    = {principal, reward}

\* TokenConfig.MIN_STAKE_AMOUNT, in HKN
MIN_STAKE_AMOUNT == 10

\* positive amounts below the minimum stake
BelowMinimumAmounts == {a \in {HKN(1), HKN(5)} : a < HKN(MIN_STAKE_AMOUNT)}

(***************************************************************************)
(* C16.  OpenStake with a positive amount below MIN_STAKE returns         *)
(* BelowMinimum, debits no balance and creates no stake.                   *)
(***************************************************************************)
C16_StakeBounds ==
    \A u \in DOMAIN db.wallets, a \in BelowMinimumAmounts :
        LET o == stake_tokens(db, cache, now, u, a, 0)
        IN o.result = "BelowMinimum" /\ o.db = db

(***************************************************************************)
(* C17.  OpenStake is atomic: a call that succeeds debits the owner's     *)
(* balance by exactly the amount and inserts exactly one stake of that    *)
(* amount with created_at = last_claimed_at = now; a call that does not   *)
(* succeed, a store fault at the debit, between the debit and the insert  *)
(* or at the commit included, leaves balances and stakes as they were.    *)
(***************************************************************************)
C17_StakeAtomic ==
    \A u \in UserIds, a \in StakeAmounts, f \in Faults(2) :
        LET o == stake_tokens(db, cache, now, u, a, f)
            sid == db.stake_seq + 1
        IN IF o.result = "ok"
           THEN /\ f = 0
                /\ o.db.wallets = [db.wallets EXCEPT ![u].balance = @ - a]
                /\ DOMAIN o.db.stakes = DOMAIN db.stakes \cup {sid}
                /\ sid \notin DOMAIN db.stakes
                /\ \A x \in DOMAIN db.stakes : o.db.stakes[x] = db.stakes[x]
                /\ o.db.stakes[sid] = [user_id |-> u, amount |-> a,
                                       created_at |-> now, last_claimed_at |-> now]
                /\ o.db.transactions = db.transactions
           ELSE o.db = db

\* a stake was opened after the clock had moved, and a further OpenStake
\* that would commit is struck by a fault between the debit and the insert
C17_Witness ==
    /\ \E sid \in DOMAIN db.stakes : db.stakes[sid].created_at > 0
    /\ \E u \in UserIds, a \in StakeAmounts :
          /\ stake_tokens(db, cache, now, u, a, 0).result = "ok"
          /\ stake_tokens(db, cache, now, u, a, 2).result = "DatabaseError"

\* the booster rows of owner u whose type is of the category of the prefix
BoostersOf(d, u, prefix) ==
    {b \in DOMAIN d.boosters : /\ d.boosters[b].user_id = u
                               /\ StartsWith(d.boosters[b].booster_type, prefix)}

(***************************************************************************)
(* C18.  Booster exclusivity: after any sequence of purchases an owner    *)
(* holds at most one booster of the speed category, and right after a     *)
(* purchase that succeeds the owner holds exactly the booster bought and  *)
(* the active multiplier of the category is the multiplier of that        *)
(* booster, whether the one held before was higher or not.                 *)
(***************************************************************************)
C18_BoosterExclusive ==
    \A u \in UserIds :
        /\ Cardinality(BoostersOf(db, u, speed)) <= 1
        /\ \A k \in BOOSTER_TYPES :
              LET o == buy_booster(db, cache, now, u, k.key, 0)
              IN o.result = "ok" =>
                    /\ Cardinality(BoostersOf(o.db, u, speed)) = 1
                    /\ \A b \in BoostersOf(o.db, u, speed) :
                          /\ b \notin DOMAIN db.boosters
                          /\ o.db.boosters[b].booster_type = k.key
                    /\ get_active_booster_multiplier(o.db, o.cache, u, speed, now).multiplier
                          = k.multiplier

\* an owner bought the booster of 7 days (x2.0) and after it the booster of
\* 24 hours (x1.5), which is the one the owner holds
C18_Witness ==
    \E u \in UserIds : \E i, j \in DOMAIN db.transactions :
        /\ i < j
        /\ db.transactions[i].sender_id = u /\ db.transactions[i].receiver_id = SYSTEM
        /\ db.transactions[i].amount = HKN(500)
        /\ db.transactions[j].sender_id = u /\ db.transactions[j].receiver_id = SYSTEM
        /\ db.transactions[j].amount = HKN(100)
        /\ \E b \in BoostersOf(db, u, speed) :
              db.boosters[b].booster_type = speed_24h_15x
        /\ get_active_booster_multiplier(db, cache, u, speed, now).multiplier = 15

\* category prefixes: the default of the method, the one the staking
\* methods pass, the keys of 24 hours, and one that matches no key
Prefixes == {speed, speed_staking, SubSeq(speed_24h_15x, 1, 9), <<"x">>}

\* the largest multiplier of the rows B of the store, 1.0 when B is empty
LargestMultiplier(d, B) ==
    IF B = {} THEN 10
    ELSE CHOOSE m \in {d.boosters[b].effect_multiplier : b \in B} :
             \A b \in B : d.boosters[b].effect_multiplier <= m

C20_BoostersModulate ==
    \A sid \in DOMAIN db.stakes :
        LET u == db.stakes[sid].user_id
            amount == db.stakes[sid].amount
        IN \A b \in BoostersOf(db, u, speed) :
              db.boosters[b].active_until > now =>
                  LET reward == Reward(amount, now - db.stakes[sid].last_claimed_at,
                                       db.boosters[b].effect_multiplier)
                      listed == get_user_stakes(db, cache, u, now).stakes
                      claim == claim_rewards(db, cache, now, u, sid, 0, 0)
                      close == unstake_tokens(db, cache, now, u, sid, 0)
                  IN /\ sid \in DOMAIN listed => listed[sid].pending_rewards = reward
                     /\ claim.result = "ok" => claim.value = reward
                     /\ close.result = "ok" => close.value = amount + reward

(***************************************************************************)
(* C21.  Buy with a key that is not in BOOSTER_TYPES returns UnknownKey   *)
(* and changes nothing.  A Buy that succeeds debits exactly the cost of   *)
(* the key, inserts one booster of the owner with active_until = now +    *)
(* duration and the multiplier of the key, and appends one ledger entry   *)
(* from the owner to receiver 0 of the cost; a Buy that does not succeed, *)
(* a store fault at any statement or at the commit included, leaves the   *)
(* store as it was: the cost is never debited without the booster row.    *)
(***************************************************************************)
C21_BuyAtomic ==
    \A u \in UserIds, key \in BoosterKeys, f \in Faults(4) :
        LET o == buy_booster(db, cache, now, u, key, f)
            n == Len(db.transactions)
            b == db.booster_seq + 1
        IN /\ (\A k \in BOOSTER_TYPES : k.key # key) =>
                  o.result = "UnknownKey" /\ o.db = db
           /\ \A k \in BOOSTER_TYPES :
                 k.key = key =>
                    IF o.result = "ok"
                    THEN /\ f = 0
                         /\ o.db.wallets = [db.wallets EXCEPT ![u].balance = @ - k.cost]
                         /\ b \notin DOMAIN db.boosters
                         /\ b \in DOMAIN o.db.boosters
                         /\ o.db.boosters[b] =
                               [user_id |-> u, booster_type |-> key,
                                active_until |-> now + k.duration_hours * TicksPerHour,
                                effect_multiplier |-> k.multiplier]
                         /\ \A x \in DOMAIN o.db.boosters \ {b} :
                               x \in DOMAIN db.boosters /\ o.db.boosters[x] = db.boosters[x]
                         /\ Len(o.db.transactions) = n + 1
                         /\ SubSeq(o.db.transactions, 1, n) = db.transactions
                         /\ o.db.transactions[n + 1].sender_id = u
                         /\ o.db.transactions[n + 1].receiver_id = SYSTEM
                         /\ o.db.transactions[n + 1].amount = k.cost
                         /\ o.db.stakes = db.stakes /\ o.db.token = db.token
                    ELSE o.db = db

\* an owner holds a booster that outlasts a day and can buy again; that
\* purchase, struck by a fault after the debit and the delete, fails
C21_Witness ==
    \E u \in UserIds, k \in BOOSTER_TYPES :
        /\ \E b \in DOMAIN db.boosters :
              db.boosters[b].user_id = u /\ db.boosters[b].active_until > TicksPerDay
        /\ buy_booster(db, cache, now, u, k.key, 0).result = "ok"
        /\ buy_booster(db, cache, now, u, k.key, 3).result = "DatabaseError"
        /\ buy_booster(db, cache, now, u, <<"x">>, 0).result = "UnknownKey"

\* the entries of a page, as a set
Entries(rows) == {rows[i] : i \in DOMAIN rows}

\* C22: get_transaction_history never answers from the cache: whatever the
\* state, the first page of an account (offset 0, limit not below the number
\* of its entries) holds every entry of the log which that account sent or
\* received.
C22_HistoryFresh ==
    \A u \in UserIds : \A order \in Orders(db, u) :
        \A i \in HistoryOf(db, u) :
            db.transactions[i] \in
                Entries(get_transaction_history(db, cache, u, 5, 0, now, order).rows)

\* the order the entries of u are specified to have: timestamp descending,
\* entries of equal timestamp by id descending
ByTimestampThenId(d, u) ==
    CHOOSE s \in Orders(d, u) :
        \A a, b \in DOMAIN s :
            (a < b /\ d.transactions[s[a]].timestamp = d.transactions[s[b]].timestamp)
                => s[a] > s[b]

\* C23: the rows the store returns for get_transaction_history(id, limit,
\* offset) are entries sent or received by id, at most limit of them, and
\* they are exactly the entries offset+1 .. offset+limit of id's entries
\* sorted by timestamp descending and, among equal timestamps, by entry id
\* descending: the log alone determines the answer.
C23_HistoryOrder ==
    \A u \in UserIds, page \in Pages : \A order \in Orders(db, u) :
        LET rows == SelectHistory(db, order, page[1], page[2])
        IN /\ \A i \in DOMAIN rows : rows[i].sender_id = u \/ rows[i].receiver_id = u
           /\ Len(rows) <= page[1]
           /\ rows = SelectHistory(db, ByTimestampThenId(db, u), page[1], page[2])

\* the usernames a registration may carry
NewNames == Usernames \cup {"renamed"}

\* C24: create_wallet for an id without a wallet creates the wallet of that
\* id with the given name and balance STARTUP_BONUS and touches no other row
\* (or, when the store refuses every attempt, fails and changes nothing);
\* for an id that has a wallet it fails and leaves the store, and so that
\* wallet's balance and name, as they were.
C24_CreateAccount ==
    \A u \in UserIds, name \in NewNames, nfail \in 0 .. MAX_RETRIES :
        LET o == create_wallet(db, cache, now, u, name, nfail)
        IN IF u \in DOMAIN db.wallets
           THEN o.result = "Failed" /\ o.db = db
           ELSE /\ nfail < MAX_RETRIES => o.result = "ok"
                /\ IF o.result = "ok"
                   THEN /\ DOMAIN o.db.wallets = DOMAIN db.wallets \cup {u}
                        /\ o.db.wallets[u] = [username |-> name, balance |-> HKN(STARTUP_BONUS)]
                        /\ \A v \in DOMAIN db.wallets : o.db.wallets[v] = db.wallets[v]
                        /\ [o.db EXCEPT !.wallets = db.wallets] = db
                   ELSE o.db = db

\* an account whose balance is no longer the bonus is registered again under
\* another name, while another id is still free
C24_Witness ==
    \E u, v \in UserIds :
        /\ u \in DOMAIN db.wallets /\ db.wallets[u].balance < HKN(STARTUP_BONUS)
        /\ create_wallet(db, cache, now, u, "renamed", 0).result = "Failed"
        /\ v \notin DOMAIN db.wallets
        /\ create_wallet(db, cache, now, v, "renamed", 0).result = "ok"

\* C25: every step that changes a balance (the creation of a wallet with
\* its startup bonus included) appends, in the same step, exactly one entry
\* to the log, or two when a stake is closed with a reward; no balance
\* changes while the log stays as it is.
C25_BalanceChangeLogged ==
    [][db'.wallets # db.wallets =>
          /\ Len(db'.transactions) - Len(db.transactions) \in {1, 2}
          /\ SubSeq(db'.transactions, 1, Len(db.transactions)) = db.transactions]_vars

\* a transaction that credits a to u and writes the entry of that credit
CreditWithEntry(u, a) ==
    << [op |-> "UpdateBalance", user |-> u, amount |-> a],
       [op |-> "InsertTransaction", sender |-> SYSTEM, receiver |-> u, amount |-> a] >>

\* C26: the log is append-only and immutable: every step leaves the entries
\* already written as they are and in place, and after every step that
\* writes to the log the ids of the entries strictly increase in the order
\* of writing, every entry has an amount > 0, and a transaction that would
\* write an entry with an amount <= 0 fails as a whole, leaving the store as
\* it was.
C26_LogAppendOnly ==
    [][/\ Len(db'.transactions) >= Len(db.transactions)
       /\ SubSeq(db'.transactions, 1, Len(db.transactions)) = db.transactions
       /\ db'.transactions # db.transactions =>
             /\ \A i \in DOMAIN db'.transactions :
                   /\ db'.transactions[i].amount > 0
                   /\ i > 1 => db'.transactions[i].id > db'.transactions[i - 1].id
             /\ \A u \in DOMAIN db'.wallets, a \in NonPositiveAmounts :
                   Transaction(db', CreditWithEntry(u, a), now', 0) = Failed(db')]_vars

\* two entries were written, the second after the first, by accounts that
\* could still pay
C26_Witness ==
    /\ Len(db.transactions) = 2
    /\ db.transactions[2].id > db.transactions[1].id
    /\ \E u \in DOMAIN db.wallets : db.wallets[u].balance >= HKN(5)

\* the prices an administrator may ask for
NewPrices == Prices \cup {-1, 2}

\* C27: the row of token_info is changed by mint_tokens and set_token_price
\* only: create_wallet, execute_transfer, sell_hkn_to_system, stake_tokens,
\* claim_rewards, unstake_tokens and buy_booster leave it as it is whatever
\* their outcome, mint_tokens leaves current_price and set_token_price leaves
\* total_supply as it is, and set_token_price with a price <= 0 is rejected
\* and changes nothing.
C27_TokenFrame ==
    /\ \A u \in UserIds, name \in Usernames, nfail \in {0, MAX_RETRIES} :
          create_wallet(db, cache, now, u, name, nfail).db.token = db.token
    /\ \A u, v \in UserIds, a \in TransferAmounts, f \in Faults(3) :
          execute_transfer(db, cache, now, u, v, a, f).db.token = db.token
    /\ \A u \in UserIds, a \in SellAmounts, f \in Faults(2) :
          sell_hkn_to_system(db, cache, now, u, a, f).db.token = db.token
    /\ \A u \in UserIds, a \in StakeAmounts, f \in Faults(2) :
          stake_tokens(db, cache, now, u, a, f).db.token = db.token
    /\ \A u \in UserIds, sid \in StakeIds, f \in Faults(3) :
          /\ \A nfail \in {0, MAX_RETRIES} :
                claim_rewards(db, cache, now, u, sid, nfail, f).db.token = db.token
          /\ unstake_tokens(db, cache, now, u, sid, f).db.token = db.token
    /\ \A u \in UserIds, key \in BoosterKeys, f \in Faults(4) :
          buy_booster(db, cache, now, u, key, f).db.token = db.token
    /\ \A u \in UserIds, a \in MintAmounts, f \in Faults(3) :
          mint_tokens(db, cache, now, u, a, f).db.token.current_price
              = db.token.current_price
    /\ \A p \in NewPrices, nfail \in {0, MAX_RETRIES} :
          LET o == set_token_price(db, cache, now, p, nfail)
          IN /\ o.db.token.total_supply = db.token.total_supply
             /\ p <= 0 => o.result = "InvalidPrice" /\ o.db = db
             /\ o.result = "ok" => o.db = [db EXCEPT !.token.current_price = p]
             /\ o.result # "ok" => o.db = db

\* after a mint has raised the supply, an account with a stake can transfer
\* and sell, and the price can be set
C27_Witness ==
    \E u, v \in UserIds, sid \in DOMAIN db.stakes :
        /\ db.token.total_supply > TOTAL_SUPPLY
        /\ db.stakes[sid].user_id = u
        /\ execute_transfer(db, cache, now, u, v, HKN(60), 0).result = "ok"
        /\ sell_hkn_to_system(db, cache, now, u, HKN(60), 0).result = "ok"
        /\ unstake_tokens(db, cache, now, u, sid, 0).result = "ok"
        /\ set_token_price(db, cache, now, 2, 0).result = "ok"

\* C28: execute_transfer from an account to itself leaves every balance, and
\* so the balance of that account and the sum of all balances, as it was,
\* whether it succeeds or fails; it changes nothing but the log, to which a
\* successful transfer appends its entry.
C28_SelfTransfer ==
    \A u \in UserIds, a \in TransferAmounts, f \in Faults(3) :
        LET o == execute_transfer(db, cache, now, u, u, a, f)
        IN /\ o.db.wallets = db.wallets
           /\ SumBalances(o.db) = SumBalances(db)
           /\ [o.db EXCEPT !.transactions = db.transactions] = db
           /\ o.result # "ok" => o.db = db

\* an account with funds transfers to itself: the transfer succeeds, and
\* fails when the store raises after the debit
C28_Witness ==
    \E u \in DOMAIN db.wallets :
        /\ db.wallets[u].balance >= HKN(60)
        /\ execute_transfer(db, cache, now, u, u, HKN(60), 0).result = "ok"
        /\ Len(execute_transfer(db, cache, now, u, u, HKN(60), 0).db.transactions)
               = Len(db.transactions) + 1
        /\ execute_transfer(db, cache, now, u, u, HKN(60), 2).result = "DatabaseError"

\* C29: the value calculate_rewards returns is amount x max(0, hours from
\* start to end) x BASE_HOURLY_RATE x multiplier: it is 0 when end <= start,
\* it is never negative, a later end never gives less, and k times the
\* elapsed time gives k times the value.
C29_Reward ==
    rewards_call.returned =>
        LET a == rewards_call.stake_amount
            s == rewards_call.start_time
            e == rewards_call.end_time
            m == rewards_call.booster_multiplier
        IN /\ rewards_call.value = Reward(a, IF e - s > 0 THEN e - s ELSE 0, m)
           /\ e <= s => rewards_call.value = 0
           /\ rewards_call.value >= 0
           /\ \A e2 \in RewardTimes :
                 e2 >= e => calculate_rewards(a, s, e2, m) >= rewards_call.value
           /\ \A k \in 1 .. 3 :
                 e >= s => calculate_rewards(a, s, s + k * (e - s), m) = k * rewards_call.value

\* a call over a positive duration with a booster's multiplier has returned
\* a positive value
C29_Witness ==
    /\ rewards_call.returned
    /\ rewards_call.end_time > rewards_call.start_time
    /\ rewards_call.booster_multiplier > 10
    /\ rewards_call.value > 0

\* C30: update_balance(id, delta) fails and changes nothing when id has no
\* wallet or when the balance plus delta is below 0, and it returns success
\* only when the balance of exactly one wallet, that of id, has changed by
\* exactly delta.
C30_AdjustBalance ==
    \A u \in UserIds, delta \in Deltas, nfail \in 0 .. MAX_RETRIES :
        LET o == update_balance(db, cache, now, u, delta, nfail)
        IN /\ u \notin DOMAIN db.wallets => o.result # "ok" /\ o.db = db
           /\ (u \in DOMAIN db.wallets /\ db.wallets[u].balance + delta < 0)
                 => o.result # "ok" /\ o.db = db
           /\ o.result = "ok" =>
                 /\ u \in DOMAIN db.wallets
                 /\ o.db = [db EXCEPT !.wallets[u].balance = @ + delta]

\* the pairs of distinct transactions under way
CallPairs ==
    {p \in BagToSet(calls) \X BagToSet(calls) :
        p[1] # p[2] \/ CopiesIn(p[1], calls) >= 2}

\* x opens with the debit of u: UPDATE wallets SET balance = balance - ?
Debits(x, u) ==
    /\ Len(x.stmts) >= 1
    /\ x.stmts[1].op = "UpdateBalance"
    /\ x.stmts[1].user = u
    /\ x.stmts[1].amount < 0

\* x credits u as well (a transfer of u to u)
CreditsBack(x, u) ==
    \E i \in DOMAIN x.stmts :
        x.stmts[i].op = "UpdateBalance" /\ x.stmts[i].user = u /\ x.stmts[i].amount > 0

\* two debits of u under way, each within the balance, together beyond it
Overdrawing(p, u) ==
    /\ u \in DOMAIN db.wallets
    /\ Debits(p[1], u) /\ Debits(p[2], u)
    /\ -p[1].stmts[1].amount <= db.wallets[u].balance
    /\ -p[2].stmts[1].amount <= db.wallets[u].balance
    /\ -p[1].stmts[1].amount - p[2].stmts[1].amount > db.wallets[u].balance

\* the first of p commits, the second fails and leaves no effect, and u is
\* left with its balance less the amount of the first
OneCommits(p, u) ==
    LET t1 == Transaction(db, p[1].stmts, now, 0)
        t2 == Transaction(t1.db, p[2].stmts, now, 0)
    IN /\ t1.ok
       /\ ~t2.ok
       /\ t2.db = t1.db
       /\ t1.db.wallets[u].balance = db.wallets[u].balance + p[1].stmts[1].amount

\* C31 as stated: of two transactions under way that debit the same account,
\* each with an amount within its balance and with a sum beyond it, only the
\* one that runs first commits; the other fails with all its effects rolled
\* back and the balance is the initial one less the committed amount.
C31_DebitsSerializeAsStated ==
    \A p \in CallPairs, u \in UserIds : Overdrawing(p, u) => OneCommits(p, u)

\* C31: the same, for two debits neither of which is a transfer of the
\* account to itself (whose credit gives the debit back in the same
\* transaction).
C31_DebitsSerialize ==
    \A p \in CallPairs, u \in UserIds :
        (Overdrawing(p, u) /\ ~CreditsBack(p[1], u) /\ ~CreditsBack(p[2], u))
            => OneCommits(p, u)

\* two debits of one account to others are under way, together beyond its
\* balance
C31_Witness ==
    \E p \in CallPairs, u \in UserIds :
        /\ Overdrawing(p, u) /\ ~CreditsBack(p[1], u) /\ ~CreditsBack(p[2], u)
        /\ \E i \in DOMAIN p[1].stmts : p[1].stmts[i].op = "InsertTransaction"

\* x is the transaction of a mint_tokens: it writes total_supply
Mints(x) == \E i \in DOMAIN x.stmts : x.stmts[i].op = "UpdateSupply"

\* C32: when two mint_tokens run concurrently and both commit, total_supply
\* has grown by the sum of the two amounts, which is what the two mints have
\* credited to balances.
C32_MintNoLostUpdate ==
    \A p \in CallPairs :
        (Mints(p[1]) /\ Mints(p[2])) =>
            LET t1 == Transaction(db, p[1].stmts, now, 0)
                t2 == Transaction(t1.db, p[2].stmts, now, 0)
            IN (t1.ok /\ t2.ok) =>
                  /\ SumBalances(t2.db) - SumBalances(db)
                        = p[1].stmts[1].amount + p[2].stmts[1].amount
                  /\ t2.db.token.total_supply - db.token.total_supply
                        = ToHKN(SumBalances(t2.db) - SumBalances(db))

\* x is the transaction of an unstake_tokens of stake sid
Unstakes(x, sid) ==
    \E i \in DOMAIN x.stmts : x.stmts[i].op = "DeleteStake" /\ x.stmts[i].stake = sid

\* x is the transaction of a claim_rewards of u: a credit from the system
\* that neither mints nor closes a stake
Claims(x, u) ==
    /\ Len(x.stmts) = 2
    /\ x.stmts[1].op = "UpdateBalance" /\ x.stmts[1].user = u /\ x.stmts[1].amount > 0
    /\ x.stmts[2].op = "InsertTransaction" /\ x.stmts[2].sender = SYSTEM

\* the reward and the principal that transaction x pays for stake sid
RewardIn(x, sid) ==
    IF Unstakes(x, sid) THEN x.value - db.stakes[sid].amount ELSE x.value
PrincipalIn(x, sid) == IF Unstakes(x, sid) THEN 1 ELSE 0

\* C33: whatever claim_rewards and unstake_tokens calls run concurrently on
\* a stake (the only stake issued, so that every claim of its owner is a
\* claim on it), the transactions that commit pay together no more reward
\* than Reward over the time since created_at at the owner's multiplier, and
\* return the principal at most once.
C33_NoOverPayment ==
    \A p \in CallPairs, sid \in DOMAIN db.stakes :
        LET u == db.stakes[sid].user_id
            t1 == Transaction(db, p[1].stmts, now, 0)
            t2 == Transaction(t1.db, p[2].stmts, now, 0)
        IN (/\ db.stake_seq = 1
            /\ Unstakes(p[1], sid) \/ Claims(p[1], u)
            /\ Unstakes(p[2], sid) \/ Claims(p[2], u)
            /\ t1.ok /\ t2.ok)
           => /\ PrincipalIn(p[1], sid) + PrincipalIn(p[2], sid) <= 1
              /\ RewardIn(p[1], sid) + RewardIn(p[2], sid)
                    <= Reward(db.stakes[sid].amount, now - db.stakes[sid].created_at,
                              OwnerMultiplier(db, cache, sid, now))

\* C34: the pool is bounded: the connections it has created, and so the
\* connections open at the same time, never number more than max_size.
C34_PoolBounded ==
    /\ pool.created <= max_size
    /\ pool.created - pool.closed <= max_size

\* C35: execute_query makes at most MAX_RETRIES attempts and sleeps
\* RETRY_DELAY after every failed attempt but the last; it returns True at the
\* first attempt that commits, with the statement applied exactly once, and
\* False after the MAX_RETRIES-th failed attempt, with the store unchanged.
BalanceStatements ==
    {[op |-> "UpdateBalance", user |-> u, amount |-> a] : u \in UserIds, a \in Deltas}

WalletInserts ==
    {[op |-> "InsertWallet", user |-> u, name |-> name, amount |-> HKN(STARTUP_BONUS)] :
        u \in UserIds, name \in Usernames}

C36_RefusalNotRetried ==
    \A st \in BalanceStatements \cup WalletInserts :
        ~Exec(db, st, now).ok => execute_query(db, cache, st, now, 0).attempts = 1

\* C37: CacheManager.get never returns an entry older than its ttl nor one
\* removed by invalidation: an expired entry is a Miss and is deleted by the
\* lookup; after invalidate() every get of a key is a Miss until that key is
\* set again; a get within ttl of a set, with no invalidation in between,
\* returns the value that was set.
MaxOps == 2

GetOps == {[op |-> "get", key |-> k] : k \in CacheKeys}
SetOps(K) ==
    {[op |-> "set", key |-> k, value |-> "w", ttl |-> ttl] : k \in K, ttl \in Ttls}
InvalidateOps == {[op |-> "invalidate", pattern |-> p] : p \in Patterns \cup {<<>>}}
OtherOps(k) ==
    GetOps \cup SetOps(CacheKeys \ {k}) \cup {[op |-> "cleanup_expired"], [op |-> "tick"]}

OpSeqs(S) == UNION {[1 .. n -> S] : n \in 0 .. MaxOps}

ApplyOp(s, o) ==
    CASE o.op = "get" -> [s EXCEPT !.cache = get(s.cache, o.key, s.now).cache]
      [] o.op = "set" -> [s EXCEPT !.cache = set(s.cache, o.key, o.value, o.ttl, s.now)]
      [] o.op = "invalidate" -> [s EXCEPT !.cache = invalidate_pattern(s.cache, o.pattern)]
      [] o.op = "cleanup_expired" -> [s EXCEPT !.cache = cleanup_expired(s.cache, s.now)]
      [] o.op = "tick" -> [s EXCEPT !.now = @ + 1]

RECURSIVE RunOps(_, _)
RunOps(s, ops) == IF ops = <<>> THEN s ELSE RunOps(ApplyOp(s, Head(ops)), Tail(ops))

Age(e, t) == (t - e.created_at) * SecondsPerTick

C37_CacheGet ==
    \A k \in CacheKeys :
        /\ LET g == get(cache, k, now)
           IN /\ g.result.hit => /\ k \in DOMAIN cache
                                 /\ Age(cache[k], now) <= cache[k].ttl
                                 /\ g.result.value = cache[k].value
              /\ (k \in DOMAIN cache /\ Age(cache[k], now) > cache[k].ttl)
                     => g.result = Miss /\ k \notin DOMAIN g.cache
        /\ \A ops \in OpSeqs(OtherOps(k) \cup InvalidateOps) :
               LET s == RunOps([cache |-> invalidate(cache), now |-> now], ops)
               IN get(s.cache, k, s.now).result = Miss
        /\ \A ops \in OpSeqs(OtherOps(k)) :
               \A v \in CacheValues, ttl \in Ttls :
                   LET s == RunOps([cache |-> set(cache, k, v, ttl, now), now |-> now], ops)
                       given == IF ttl = 0 THEN default_ttl ELSE ttl
                   IN (s.now - now) * SecondsPerTick <= given
                          => get(s.cache, k, s.now).result = [hit |-> TRUE, value |-> v]

\* an expired entry and a live one are in the cache, and a lookup deletes the
\* expired one
C37_Witness ==
    \E k, l \in CacheKeys :
        /\ k \in DOMAIN cache /\ Age(cache[k], now) > cache[k].ttl
        /\ get(cache, k, now).result = Miss
        /\ k \notin DOMAIN get(cache, k, now).cache
        /\ l \in DOMAIN cache /\ Age(cache[l], now) = cache[l].ttl
        /\ get(cache, l, now).result = [hit |-> TRUE, value |-> cache[l].value]

\* C38: invalidation by prefix removes exactly the entries whose key starts
\* with the prefix and leaves every other entry (key, value, created_at, ttl)
\* as it was; invalidation without a pattern removes every entry.
C38_InvalidateByPrefix ==
    /\ \A prefix \in Patterns :
           LET after == invalidate_pattern(cache, prefix)
           IN /\ DOMAIN after = {k \in DOMAIN cache : ~StartsWith(k, prefix)}
              /\ \A k \in DOMAIN after : after[k] = cache[k]
    /\ DOMAIN invalidate(cache) = {}

\* C39: for every open stake created_at <= last_claimed_at; last_claimed_at
\* never decreases, whatever the interleaving of the claims; the amount and
\* the owner of a stake never change while it is open.
StakeStep(sid) ==
    /\ db'.stakes[sid].created_at <= db'.stakes[sid].last_claimed_at
    /\ sid \in DOMAIN db.stakes =>
           /\ db'.stakes[sid].last_claimed_at >= db.stakes[sid].last_claimed_at
           /\ db'.stakes[sid].amount = db.stakes[sid].amount
           /\ db'.stakes[sid].user_id = db.stakes[sid].user_id

C39_StakeMonotone == [][\A sid \in DOMAIN db'.stakes : StakeStep(sid)]_vars

\* C40: a cached read that races with a write does not outlive the write's
\* invalidation: where every write goes through execute_query, no entry of
\* the cache holds a row other than the one the store holds.
C40_NoStaleEntry ==
    \A u \in UserIds :
        LET k == Key("wallet", <<u>>)
        IN k \in DOMAIN cache => cache[k].value = SelectWallet(db, u)

====
